---- MODULE Spec2Model ----
(***************************************************************************)
(* The translation orchestrator of classics-retold:                        *)
(*   translateBatchGroup / translateBatch  (src/src/utils/text-utils.js)   *)
(*   translateBatch, one sentence at a time (src/unnamed/part_000)         *)
(* A unit is identified by its sid; the input list holds the sids 1..n in  *)
(* input order.  One action is one run-to-completion step of the event     *)
(* loop: the code between two awaits, or one promise handler.              *)
(***************************************************************************)
EXTENDS Integers, Sequences, FiniteSets, TLC

\* ---------------------------------------------------------------- bounds
MaxUnits == 3
MaxBatch == 2
MaxRetry == 2
MaxPassages == 2
MaxLen == 5
MaxTyped == 3
MaxParagraphs == 2
MaxSentences == 3
MaxCount == 8
MaxContext == 12

\* ------------------------------------------------------ program constants
DefaultMaxParallel == 3
BaseDelay == 500
DefaultBatchSize == 10
DefaultRetryAttempts == 2
RetellingsBatchSize == 10
RetellingsMaxParallel == 3
CharsPerToken == 4
AvgOutputTokens == 100
InputCostPer1M == 1
OutputCostPer1M == 3
UnitsPerDigit == 1000

VARIABLES
  pc,                    \* "init" | "running" | "returned" | "threw"
  hasKey,                \* OPENAI_API_KEY is set
  sentencesWithContext,  \* the input list (sids in input order)
  batchSize, maxParallel, retryAttempts,   \* options
  deterministic, service,                  \* the external service
  batches,               \* the groups, in input order
  b,                     \* loop variable of the wave loop (0-based)
  st,                    \* per group: where its promise chain stands
  attempt,               \* per group: loop variable of translateBatchGroup
  lastError,             \* per group: message of lastError ("" = null)
  content,               \* per group: form of the response text of the
                         \* call under way ("" while none has arrived)
  parsed,                \* per group: what the parsed response held per key
  batchResults,          \* per group: the map translateBatchGroup resolved with
  thrown,                \* per group: message of the error the chain carries
  translations,          \* the aggregate map sid -> value
  processedCount,
  currents,              \* the values of `current` the callback received
  reported,              \* per sid: how often the callback was invoked
  calls,                 \* per group: service calls issued (history)
  fails,                 \* per group: failed attempts (history)
  waits,                 \* per group: backoff waits started (history)
  delay,                 \* per group: length of the last backoff wait
  wave,                  \* number of waves issued so far (history)
  waveOf,                \* per group: number of the wave that issued it
  i, tries, success,     \* one-at-a-time translateBatch: i, attempt, success
  step,                  \* one-at-a-time translateBatch: what it awaits
  sent,                  \* one-at-a-time translateBatch: calls issued per unit
  script,                \* which script runs: its file name, "" for none
  skipCache,             \* generate-retellings: --skip-cache
  config,                \* preprocess-book: translate, estimate, dryRun
  phase,                 \* what the script awaits; "done"; "exited"
  run,                   \* 1: first run of the script, 2: second run
  units,                 \* number of translation units of the input book
  cacheFile,             \* .translation-cache/<bookId>.json
  translationCache,      \* generate-retellings: the cache in memory
  passages,              \* the modern text per sid, in memory
  document,              \* the book document the run wrote
  atStart,               \* the cache file as it was when the run started
  saved,                 \* outcome of saveTranslationCache in this run
  firstDocument,         \* the document the first run wrote
  segpc,                 \* segmentParagraph: "idle" | "loop" | "returned"
  paragraphText,         \* segmentParagraph: its argument
  normalized, parts,     \* segmentParagraph: normalized, parts
  partIndex,             \* segmentParagraph: loop variable i (0-based)
  currentPos, sentenceBuffer, sentenceStart, sentenceIndex,
  sentences,             \* segmentParagraph: the list it returns
  bookpc,                \* preprocess-book: "idle" | "structured" |
                         \* "prepared" | "applied"
  processedBook,         \* preprocess-book: the list of processed chapters
  prepared,              \* what prepareSentencesForTranslation returned
  given,                 \* the translations handed to applyTranslations
  finalBook,             \* the chapters applyTranslations returned
  costpc,                \* estimateCost: "idle" | "called" | "returned"
  sentenceCount, avgContextLength,     \* estimateCost: its arguments
  costEstimate           \* estimateCost: the object it returns

pipeline == <<script, skipCache, config, phase, run, units, cacheFile,
              translationCache, passages, document, atStart, saved,
              firstDocument>>

segmenter == <<segpc, paragraphText, normalized, parts, partIndex,
               currentPos, sentenceBuffer, sentenceStart, sentenceIndex,
               sentences>>

structure == <<bookpc, processedBook, prepared, given, finalBook>>

estimator == <<costpc, sentenceCount, avgContextLength, costEstimate>>

\* the state of the other programs of the repository
outside == <<pipeline, segmenter, structure, estimator>>

vars == <<pc, hasKey, sentencesWithContext, batchSize, maxParallel,
          retryAttempts, deterministic, service, batches, b, st, attempt,
          lastError, content, parsed, batchResults, thrown, translations,
          processedCount, currents, reported, calls, fails, waits, delay, wave, waveOf,
          i, tries, success, step, sent, outside>>

legacy == <<i, tries, success, step, sent>>

grouped == <<batches, b, st, attempt, lastError, content, parsed, batchResults, thrown,
             processedCount, calls, fails, waits, delay, wave, waveOf>>

params == <<hasKey, sentencesWithContext, batchSize, maxParallel,
            retryAttempts, deterministic, service>>

\* ------------------------------------------------------------- helpers
Min(x, y) == IF x < y THEN x ELSE y

RECURSIVE Pow2(_)
Pow2(e) == IF e <= 0 THEN 1 ELSE 2 * Pow2(e - 1)

\* history counters saturate so that every run of the model is finite-state
CallCap == MaxRetry + 2
Bump(x) == IF x < CallCap THEN x + 1 ELSE x

total == Len(sentencesWithContext)
Sids == {sentencesWithContext[j] : j \in 1..total}
Groups == 1..Len(batches)

\* Array.prototype.slice(from, to): 0-based, `to` exclusive, clamped
Slice(s, from, to) == SubSeq(s, from + 1, Min(to, Len(s)))

\* ------------------------------------------------------------- values
\* A value of the result map. t = "text": the non-empty string the response
\* of group g held under key k; "other": a truthy non-string JSON value
\* (number, object, array, true) under that key; "failedIndex" and "failed":
\* the two sentinel strings.
Text(g, k)  == [t |-> "text",  g |-> g, k |-> k, m |-> ""]
Other(g, k) == [t |-> "other", g |-> g, k |-> k, m |-> ""]
IndexSentinel(idx) == [t |-> "failedIndex", g |-> 0, k |-> idx, m |-> ""]
FailedSentinel(msg) == [t |-> "failed", g |-> 0, k |-> 0, m |-> msg]

\* what a parsed response can hold under one key
Kinds == {"text", "missing", "empty", "other"}
\* messages of the errors a service call rejects with
ErrMsgs == {"service error"}
\* messages of the errors the parsing of a response text throws
NoJsonMsg == "Could not extract JSON from response"
SyntaxErrorMsg == "Unexpected token in JSON"
NoAttemptMsg == "Batch translation failed"
NotAFunctionMsg == "translation.substring is not a function"

\* ------------------------------------------------- translateBatch: groups
\* for (let i = 0; i < length; i += batchSize) batches.push(slice(i, i + batchSize))
RECURSIVE SplitFrom(_, _, _, _)
SplitFrom(list, size, j, acc) ==
  IF j < Len(list)
    THEN SplitFrom(list, size, j + size, Append(acc, Slice(list, j, j + size)))
    ELSE acc

\* variant: the loop steps by one instead of by batchSize
BatchesStepOne(list, size) ==
  [k \in 1..Len(list) |-> Slice(list, k - 1, k - 1 + size)]

BatchesOf(list, size) == SplitFrom(list, size, 0, <<>>)

\* variant: the wave is one group wider than maxParallel
ParallelBatchesWider(all, from, width) ==
  {from + j : j \in 1..Len(Slice(all, from, from + width + 1))}

\* batches.slice(b, b + maxParallel), as the indices (1-based) of its groups
ParallelBatches(all, from, width) ==
  {from + j : j \in 1..Len(Slice(all, from, from + width))}

\* loop increment of the wave loop
NextWaveStart(from, width) == from + width

\* ------------------------------------------- translateBatchGroup: one call
Put(map, key, v) == [x \in (DOMAIN map) \cup {key} |-> IF x = key THEN v ELSE map[x]]

\* variant: the aggregate map is replaced instead of merged into
ObjectAssignReplacing(target, src) == src

ObjectAssign(target, src) ==
  [x \in (DOMAIN target) \cup (DOMAIN src) |->
      IF x \in DOMAIN src THEN src[x] ELSE target[x]]

\* variant: the sentinel names the 1-based key instead of the 0-based index
ParsedOrSentinelOneBased(g, resp, idx) ==
  LET key == idx + 1 IN
    CASE resp[key] = "text"  -> Text(g, key)
      [] resp[key] = "other" -> Other(g, key)
      [] OTHER               -> IndexSentinel(key)

\* parsed[key] || `[Translation failed for index ${idx}]`
ParsedOrSentinel(g, resp, idx) ==
  LET key == idx + 1 IN
    CASE resp[key] = "text"  -> Text(g, key)
      [] resp[key] = "other" -> Other(g, key)
      [] OTHER               -> IndexSentinel(idx)

\* sentenceBatch.forEach((item, idx) => translations[item.sid] = ...)
RECURSIVE MapBackFrom(_, _, _, _, _)
MapBackFrom(g, batch, resp, idx, acc) ==
  IF idx >= Len(batch) THEN acc
  ELSE MapBackFrom(g, batch, resp, idx + 1,
                   Put(acc, batch[idx + 1], ParsedOrSentinel(g, resp, idx)))

MapBack(g, batch, resp) == MapBackFrom(g, batch, resp, 0, <<>>)

\* The forms of a response text: "json" is well-formed JSON as it stands;
\* "fenced" has text around one well-formed object (a code fence, a preamble);
\* "noBraces" is not JSON and has no '{' with a '}' after it; "badBraces" is
\* not JSON and the span from its first '{' to its last '}' is not JSON either.
Forms == {"json", "fenced", "noBraces", "badBraces"}
\* a service that answers in JSON as it was told to, or in plain prose
PlainForms == {"json", "noBraces"}

\* JSON.parse(content) returns
DirectParse(form) == form = "json"
\* content.match(/\{[\s\S]*\}/) is not null
JsonMatch(form) == form \in {"json", "fenced", "badBraces"}
\* JSON.parse(jsonMatch[0]) returns
MatchParse(form) == form \in {"json", "fenced"}

\* variant: whatever lies between braces is taken for the object
ParseContentLenient(form) ==
  IF DirectParse(form) \/ JsonMatch(form)
    THEN [ok |-> TRUE, msg |-> ""]
    ELSE [ok |-> FALSE, msg |-> NoJsonMsg]

\* try { JSON.parse(content) } catch { match ? JSON.parse(match[0]) : throw }
ParseContent(form) ==
  IF DirectParse(form) THEN [ok |-> TRUE, msg |-> ""]
  ELSE IF JsonMatch(form)
    THEN (IF MatchParse(form) THEN [ok |-> TRUE, msg |-> ""]
                              ELSE [ok |-> FALSE, msg |-> SyntaxErrorMsg])
    ELSE [ok |-> FALSE, msg |-> NoJsonMsg]

\* variant: a backoff wait follows every failure, the last one included
BackoffAfterEveryFailure(att, attempts) == att < attempts

\* attempt < retryAttempts - 1: a backoff wait follows this failure
BackoffFollows(att, attempts) == att < attempts - 1

\* Math.pow(2, attempt) * 500
BackoffDelay(att) == Pow2(att) * BaseDelay

\* variant: the retry loop does not advance
SameAttempt(att) == att

\* attempt++ of the retry loop
NextAttempt(att) == att + 1

\* --------------------------------------- translateBatch: the two handlers
\* translation.substring exists only on strings
IsString(v) == v.t # "other"

\* .then(batchResults => { Object.assign(...); batch.forEach(...) })
\* acc = [tr, count, cur, rep, threw]; the loop stops where substring throws
RECURSIVE ThenLoop(_, _, _)
ThenLoop(batch, j, acc) ==
  IF j > Len(batch) THEN acc
  ELSE LET sid == batch[j]
           count == acc.count + 1
       IN IF ~IsString(acc.tr[sid])
            THEN [acc EXCEPT !.count = count, !.threw = TRUE]
            ELSE ThenLoop(batch, j + 1,
                   [acc EXCEPT !.count = count,
                               !.cur = Append(@, count),
                               !.rep = [@ EXCEPT ![sid] = @ + 1]])

ThenHandlerResult(batch, results, acc) ==
  ThenLoop(batch, 1, [acc EXCEPT !.tr = ObjectAssign(@, results)])

\* .catch(error => { batch.forEach(...); throw error })
RECURSIVE CatchLoop(_, _, _, _)
CatchLoop(batch, msg, j, acc) ==
  IF j > Len(batch) THEN acc
  ELSE LET sid == batch[j]
           count == acc.count + 1
       IN CatchLoop(batch, msg, j + 1,
            [acc EXCEPT !.count = count,
                        !.tr = Put(@, sid, FailedSentinel(msg)),
                        !.cur = Append(@, count),
                        !.rep = [@ EXCEPT ![sid] = @ + 1]])

\* variant: the catch handler stops after the first unit of the group
CatchFirstUnitOnly(batch, msg, acc) == CatchLoop(SubSeq(batch, 1, 1), msg, 1, acc)

CatchHandlerResult(batch, msg, acc) == CatchLoop(batch, msg, 1, acc)

Acc == [tr |-> translations, count |-> processedCount, cur |-> currents,
        rep |-> reported, threw |-> FALSE]

SetAcc(acc) ==
  /\ translations' = acc.tr
  /\ processedCount' = acc.count
  /\ currents' = acc.cur
  /\ reported' = acc.rep

\* ------------------------------------------------------------ the service
\* ok: the call resolved with a response text of the given form
OutcomesFor(size) ==
  {[ok |-> FALSE, msg |-> m, form |-> "", kinds |-> <<>>] : m \in ErrMsgs}
    \cup {[ok |-> TRUE, msg |-> "", form |-> "noBraces", kinds |-> <<>>]}
    \cup {[ok |-> TRUE, msg |-> "", form |-> "json", kinds |-> ks] :
             ks \in [1..size -> Kinds]}

\* a service whose answer depends only on the group it is given
ServicesFor(all) ==
  LET sizes == {Len(all[g]) : g \in 1..Len(all)}
      every == UNION {OutcomesFor(z) : z \in sizes}
  IN {f \in [1..Len(all) -> every] :
        \A g \in 1..Len(all) : f[g] \in OutcomesFor(Len(all[g]))}

MayAnswer(g, form, resp) ==
  IF deterministic
    THEN service[g].ok /\ service[g].form = form /\ service[g].kinds = resp
    ELSE TRUE

MayFail(g, msg) ==
  IF deterministic THEN ~service[g].ok /\ service[g].msg = msg ELSE TRUE

\* ------------------------------------------------------------------ Init
NoFile == [state |-> "missing", data |-> <<>>]
NoDocument == [written |-> FALSE, modern |-> <<>>]
NoConfig == [translate |-> FALSE, estimate |-> FALSE, dryRun |-> FALSE]

\* no script of the repository is running
NoScript ==
  /\ script = ""
  /\ skipCache = FALSE
  /\ config = NoConfig
  /\ phase = "idle"
  /\ run = 1
  /\ units = 0
  /\ cacheFile = NoFile
  /\ translationCache = <<>>
  /\ passages = <<>>
  /\ document = NoDocument
  /\ atStart = NoFile
  /\ saved = "none"
  /\ firstDocument = NoDocument

\* segmentParagraph is not running
NoSegmenter ==
  /\ segpc = "idle"
  /\ paragraphText = <<>>
  /\ normalized = <<>>
  /\ parts = <<>>
  /\ partIndex = 0
  /\ currentPos = 0
  /\ sentenceBuffer = <<>>
  /\ sentenceStart = 0
  /\ sentenceIndex = 0
  /\ sentences = <<>>

\* estimateCost is not running
NoEstimate ==
  /\ costpc = "idle"
  /\ sentenceCount = 0
  /\ avgContextLength = 0
  /\ costEstimate = <<>>

\* no book structure is being processed
NoStructure ==
  /\ bookpc = "idle"
  /\ processedBook = <<>>
  /\ prepared = <<>>
  /\ given = <<>>
  /\ finalBook = <<>>

InitCommon ==
  /\ pc = "init"
  /\ hasKey \in BOOLEAN
  /\ \E n \in 0..MaxUnits : sentencesWithContext = [j \in 1..n |-> j]
  /\ retryAttempts \in 0..MaxRetry
  /\ batches = <<>>
  /\ b = 0
  /\ st = <<>>
  /\ attempt = <<>>
  /\ lastError = <<>>
  /\ content = <<>>
  /\ parsed = <<>>
  /\ batchResults = <<>>
  /\ thrown = <<>>
  /\ translations = <<>>
  /\ processedCount = 0
  /\ currents = <<>>
  /\ reported = [s \in Sids |-> 0]
  /\ calls = <<>>
  /\ fails = <<>>
  /\ waits = <<>>
  /\ delay = <<>>
  /\ wave = 0
  /\ waveOf = <<>>
  /\ i = 0
  /\ tries = 0
  /\ success = FALSE
  /\ step = "none"
  /\ sent = [s \in Sids |-> 0]
  /\ NoScript
  /\ NoSegmenter
  /\ NoStructure
  /\ NoEstimate

Init ==
  /\ InitCommon
  /\ batchSize \in 1..MaxBatch
  /\ maxParallel \in 1..DefaultMaxParallel
  /\ deterministic = FALSE
  /\ service = <<>>

DetInit ==
  /\ InitCommon
  /\ batchSize \in 1..MaxBatch
  /\ maxParallel \in 1..DefaultMaxParallel
  /\ batchSize \in 1..MaxBatch
  /\ maxParallel \in 1..DefaultMaxParallel
  /\ deterministic = TRUE
  /\ service \in ServicesFor(BatchesOf(sentencesWithContext, batchSize))

\* ---------------------------------------------------------------- actions
\* for (let attempt = 0; attempt < retryAttempts; ...)
LoopContinues(att, attempts) == att < attempts

Settled == {"fulfilled", "failed"}

\* variant: the wave is over as soon as one of its promises has settled
AnySettled(gs) == \E g \in gs : st[g] \in {"fulfilled", "failed"}

\* Promise.allSettled(batchPromises) resolves
AllSettled(gs) == \A g \in gs : st[g] \in Settled

\* parallelBatches.map(batch => translateBatchGroup(...)): every group of the
\* wave runs up to its first await, that is, issues its first call; with no
\* attempt to make it throws at once
IssueWave(all, from, stOld, attemptOld, callsOld, thrownOld, waveOld) ==
  LET gs == ParallelBatches(all, from, maxParallel)
      enters == LoopContinues(0, retryAttempts)
  IN /\ st' = [g \in 1..Len(all) |->
                 IF g \in gs THEN (IF enters THEN "calling" ELSE "rejected")
                             ELSE stOld[g]]
     /\ attempt' = [g \in 1..Len(all) |-> IF g \in gs THEN 0 ELSE attemptOld[g]]
     /\ calls' = [g \in 1..Len(all) |->
                 IF g \in gs /\ enters THEN Bump(callsOld[g]) ELSE callsOld[g]]
     /\ thrown' = [g \in 1..Len(all) |->
                 IF g \in gs /\ ~enters THEN NoAttemptMsg ELSE thrownOld[g]]
     /\ waveOf' = [g \in 1..Len(all) |-> IF g \in gs THEN wave ELSE waveOld[g]]
     /\ wave' = wave + 1

\* translateBatch up to its first await
Start ==
  /\ pc = "init"
  /\ IF ~hasKey
       THEN /\ pc' = "threw"
            /\ UNCHANGED <<batches, b, st, attempt, lastError, content, parsed,
                           batchResults, thrown, translations, processedCount, currents,
                           reported, calls, fails, waits, delay, wave, waveOf>>
       ELSE LET all == BatchesOf(sentencesWithContext, batchSize)
                zero == [g \in 1..Len(all) |-> 0]
                none == [g \in 1..Len(all) |-> ""]
            IN /\ batches' = all
               /\ b' = 0
               /\ lastError' = none
               /\ content' = none
               /\ parsed' = [g \in 1..Len(all) |-> <<>>]
               /\ batchResults' = [g \in 1..Len(all) |-> <<>>]
               /\ fails' = zero
               /\ waits' = zero
               /\ delay' = zero
               /\ IF 0 < Len(all)
                    THEN /\ pc' = "running"
                         /\ IssueWave(all, 0, [g \in 1..Len(all) |-> "pending"],
                                      zero, zero, none,
                                      [g \in 1..Len(all) |-> -1])
                    ELSE /\ pc' = "returned"
                         /\ st' = <<>> /\ attempt' = <<>> /\ calls' = <<>>
                         /\ thrown' = <<>> /\ waveOf' = <<>>
                         /\ UNCHANGED wave
               /\ UNCHANGED <<translations, processedCount, currents, reported>>
  /\ UNCHANGED <<params, legacy, outside>>

\* the call of group g returns a response from which an object is parsed
CallSucceeds(g, form, resp) ==
  /\ pc = "running"
  /\ st[g] = "calling"
  /\ MayAnswer(g, form, resp)
  /\ ParseContent(form).ok
  /\ content' = [content EXCEPT ![g] = form]
  /\ parsed' = [parsed EXCEPT ![g] = resp]
  /\ batchResults' = [batchResults EXCEPT ![g] = MapBack(g, batches[g], resp)]
  /\ st' = [st EXCEPT ![g] = "resolved"]
  /\ UNCHANGED <<pc, params, legacy, outside, batches, b, attempt, lastError, thrown,
                 translations, processedCount, currents, reported, calls,
                 fails, waits, delay, wave, waveOf>>

\* catch (error) { lastError = error; if (attempt < retryAttempts - 1) await }
\* and, without a wait, the next turn of the retry loop
CatchBlock(g, msg) ==
  /\ lastError' = [lastError EXCEPT ![g] = msg]
  /\ fails' = [fails EXCEPT ![g] = Bump(@)]
  /\ IF BackoffFollows(attempt[g], retryAttempts)
       THEN /\ st' = [st EXCEPT ![g] = "backoff"]
            /\ delay' = [delay EXCEPT ![g] = BackoffDelay(attempt[g])]
            /\ waits' = [waits EXCEPT ![g] = Bump(@)]
            /\ UNCHANGED <<attempt, calls, thrown>>
       ELSE LET att == NextAttempt(attempt[g])
            IN /\ attempt' = [attempt EXCEPT ![g] = att]
               /\ IF LoopContinues(att, retryAttempts)
                    THEN /\ st' = [st EXCEPT ![g] = "calling"]
                         /\ calls' = [calls EXCEPT ![g] = Bump(@)]
                         /\ UNCHANGED thrown
                    ELSE /\ st' = [st EXCEPT ![g] = "rejected"]
                         /\ thrown' = [thrown EXCEPT ![g] = msg]
                         /\ UNCHANGED calls
               /\ UNCHANGED <<delay, waits>>

\* the call of group g returns a response from which nothing can be parsed
CallUnparseable(g, form) ==
  /\ pc = "running"
  /\ st[g] = "calling"
  /\ MayAnswer(g, form, <<>>)
  /\ ~ParseContent(form).ok
  /\ content' = [content EXCEPT ![g] = form]
  /\ CatchBlock(g, ParseContent(form).msg)
  /\ UNCHANGED <<pc, params, legacy, outside, batches, b, parsed, batchResults, translations,
                 processedCount, currents, reported, wave, waveOf>>

\* the call of group g rejects
CallFails(g, msg) ==
  /\ pc = "running"
  /\ st[g] = "calling"
  /\ MayFail(g, msg)
  /\ content' = [content EXCEPT ![g] = ""]
  /\ CatchBlock(g, msg)
  /\ UNCHANGED <<pc, params, legacy, outside, batches, b, parsed, batchResults, translations,
                 processedCount, currents, reported, wave, waveOf>>

\* the backoff timer of group g fires: next turn of the retry loop
BackoffElapses(g) ==
  /\ pc = "running"
  /\ st[g] = "backoff"
  /\ LET att == NextAttempt(attempt[g])
     IN /\ attempt' = [attempt EXCEPT ![g] = att]
        /\ IF LoopContinues(att, retryAttempts)
             THEN /\ st' = [st EXCEPT ![g] = "calling"]
                  /\ calls' = [calls EXCEPT ![g] = Bump(@)]
                  /\ UNCHANGED thrown
             ELSE /\ st' = [st EXCEPT ![g] = "rejected"]
                  /\ thrown' = [thrown EXCEPT ![g] =
                        IF lastError[g] = "" THEN NoAttemptMsg ELSE lastError[g]]
                  /\ UNCHANGED calls
  /\ content' = [content EXCEPT ![g] = ""]
  /\ UNCHANGED <<pc, params, legacy, outside, batches, b, lastError, parsed,
                 batchResults, translations,
                 processedCount, currents, reported, fails, waits, delay,
                 wave, waveOf>>

\* The locals of translateBatchGroup and what is recorded about its run
\* (parsed, batchResults, the counters) are dropped once the handler that
\* consumes its outcome has run.
DropFrame(g) ==
  /\ attempt' = [attempt EXCEPT ![g] = 0]
  /\ lastError' = [lastError EXCEPT ![g] = ""]
  /\ content' = [content EXCEPT ![g] = ""]
  /\ parsed' = [parsed EXCEPT ![g] = <<>>]
  /\ batchResults' = [batchResults EXCEPT ![g] = <<>>]
  /\ calls' = [calls EXCEPT ![g] = 0]
  /\ fails' = [fails EXCEPT ![g] = 0]
  /\ waits' = [waits EXCEPT ![g] = 0]
  /\ delay' = [delay EXCEPT ![g] = 0]

\* the .then handler of group g
ThenHandler(g) ==
  /\ pc = "running"
  /\ st[g] = "resolved"
  /\ LET acc == ThenHandlerResult(batches[g], batchResults[g], Acc)
     IN /\ SetAcc(acc)
        /\ IF acc.threw
             THEN /\ st' = [st EXCEPT ![g] = "thenThrew"]
                  /\ thrown' = [thrown EXCEPT ![g] = NotAFunctionMsg]
             ELSE /\ st' = [st EXCEPT ![g] = "fulfilled"]
                  /\ UNCHANGED thrown
  /\ DropFrame(g)
  /\ UNCHANGED <<pc, params, legacy, outside, batches, b, wave, waveOf>>

\* the .catch handler of group g
CatchHandler(g) ==
  /\ pc = "running"
  /\ st[g] \in {"rejected", "thenThrew"}
  /\ SetAcc(CatchHandlerResult(batches[g], thrown[g], Acc))
  /\ st' = [st EXCEPT ![g] = "failed"]
  /\ DropFrame(g)
  /\ UNCHANGED <<pc, params, legacy, outside, batches, b, thrown, wave, waveOf>>

\* await Promise.allSettled(batchPromises) resumes: next wave, or return
WaveSettled ==
  /\ pc = "running"
  /\ AllSettled(ParallelBatches(batches, b, maxParallel))
  /\ LET from == NextWaveStart(b, maxParallel)
     IN /\ b' = from
        /\ IF from < Len(batches)
             THEN /\ IssueWave(batches, from, st, attempt, calls, thrown, waveOf)
                  /\ UNCHANGED pc
             ELSE /\ pc' = "returned"
                  /\ UNCHANGED <<st, attempt, calls, thrown, wave, waveOf>>
  /\ UNCHANGED <<params, legacy, outside, batches, lastError, content, parsed,
                 batchResults, translations,
                 processedCount, currents, reported, fails, waits, delay>>

NextWith(forms) ==
  \/ Start
  \/ \E g \in Groups : \E form \in forms :
        \E resp \in [1..Len(batches[g]) -> Kinds] : CallSucceeds(g, form, resp)
  \/ \E g \in Groups : \E form \in forms : CallUnparseable(g, form)
  \/ \E g \in Groups : \E msg \in ErrMsgs : CallFails(g, msg)
  \/ \E g \in Groups : BackoffElapses(g)
  \/ \E g \in Groups : ThenHandler(g)
  \/ \E g \in Groups : CatchHandler(g)
  \/ WaveSettled

Next == NextWith(PlainForms)

\* the service may answer with a text of any form
ParseNext == NextWith(Forms)

Spec == Init /\ [][Next]_vars

\* one group in flight at a time, response texts of every form
ParseInit == Init /\ maxParallel = 1

ParseSpec == ParseInit /\ [][ParseNext]_vars

DetSpec == DetInit /\ [][Next]_vars

\* every issued call settles, every timer fires, every handler runs
FairSpec == Init /\ [][Next]_vars /\ WF_vars(Next)

\* ------------------------------------ translateBatch, one sentence at a time
\* the string translateSentence returned for the unit
SentenceText(sid) == [t |-> "text", g |-> 0, k |-> sid, m |-> ""]

\* translateSentence: throw new Error(`Translation failed: ${error.message}`)
Wrapped(msg) == "Translation failed: " \o msg

\* while (attempt < retryAttempts && !success)
WhileContinues(att, attempts, done) == att < attempts /\ ~done

\* the for loop from index idx up to its next await: the first unit whose
\* while loop is entered gets its call issued; without one the function returns
EnterFrom(idx) ==
  IF idx < total /\ WhileContinues(0, retryAttempts, FALSE)
    THEN [i |-> idx, tries |-> 0, success |-> FALSE, step |-> "calling",
          pc |-> "running"]
    ELSE [i |-> total, tries |-> 0, success |-> FALSE, step |-> "none",
          pc |-> "returned"]

Enter(idx) ==
  LET e == EnterFrom(idx)
  IN /\ i' = e.i
     /\ tries' = e.tries
     /\ success' = e.success
     /\ step' = e.step
     /\ pc' = e.pc
     /\ sent' = IF e.step = "calling"
                  THEN [sent EXCEPT ![sentencesWithContext[e.i + 1]] = Bump(@)]
                  ELSE sent

LegacyStart ==
  /\ pc = "init"
  /\ IF ~hasKey
       THEN /\ pc' = "threw"
            /\ UNCHANGED legacy
       ELSE Enter(0)
  /\ UNCHANGED <<params, outside, grouped, translations, currents, reported>>

\* translateSentence resolves for unit i
LegacyCallSucceeds ==
  /\ pc = "running"
  /\ step = "calling"
  /\ LET sid == sentencesWithContext[i + 1]
     IN /\ translations' = Put(translations, sid, SentenceText(sid))
        /\ currents' = Append(currents, i + 1)
        /\ reported' = [reported EXCEPT ![sid] = @ + 1]
  /\ IF i < total - 1
       THEN /\ success' = TRUE
            /\ step' = "rateDelay"
            /\ UNCHANGED <<pc, i, tries, sent>>
       ELSE Enter(i + 1)
  /\ UNCHANGED <<params, outside, grouped>>

\* the rate-limiting delay after unit i is over
LegacyRateDelayElapses ==
  /\ pc = "running"
  /\ step = "rateDelay"
  /\ IF WhileContinues(tries, retryAttempts, success)
       THEN /\ step' = "calling"
            /\ sent' = [sent EXCEPT ![sentencesWithContext[i + 1]] = Bump(@)]
            /\ UNCHANGED <<pc, i, tries, success>>
       ELSE Enter(i + 1)
  /\ UNCHANGED <<params, outside, grouped, translations, currents, reported>>

\* translateSentence rejects for unit i
LegacyCallFails(msg) ==
  /\ pc = "running"
  /\ step = "calling"
  /\ LET att == tries + 1
         sid == sentencesWithContext[i + 1]
     IN IF att < retryAttempts
          THEN /\ tries' = att
               /\ step' = "retryDelay"
               /\ UNCHANGED <<pc, i, success, sent, translations>>
          ELSE /\ translations' = Put(translations, sid, FailedSentinel(Wrapped(msg)))
               /\ IF WhileContinues(att, retryAttempts, success)
                    THEN /\ tries' = att
                         /\ step' = "calling"
                         /\ sent' = [sent EXCEPT ![sid] = Bump(@)]
                         /\ UNCHANGED <<pc, i, success>>
                    ELSE Enter(i + 1)
  /\ UNCHANGED <<params, outside, grouped, currents, reported>>

\* the retry delay of unit i is over
LegacyRetryDelayElapses ==
  /\ pc = "running"
  /\ step = "retryDelay"
  /\ IF WhileContinues(tries, retryAttempts, success)
       THEN /\ step' = "calling"
            /\ sent' = [sent EXCEPT ![sentencesWithContext[i + 1]] = Bump(@)]
            /\ UNCHANGED <<pc, i, tries, success>>
       ELSE Enter(i + 1)
  /\ UNCHANGED <<params, outside, grouped, translations, currents, reported>>

LegacyInit ==
  /\ InitCommon
  /\ batchSize \in 1..MaxBatch
  /\ maxParallel \in 1..DefaultMaxParallel
  /\ batchSize = 1
  /\ maxParallel = 1
  /\ deterministic = FALSE
  /\ service = <<>>

LegacyNext ==
  \/ LegacyStart
  \/ LegacyCallSucceeds
  \/ LegacyRateDelayElapses
  \/ \E msg \in ErrMsgs : LegacyCallFails(msg)
  \/ LegacyRetryDelayElapses

LegacySpec == LegacyInit /\ [][LegacyNext]_vars

\* ------------------------------------------- strings of cache and documents
\* a non-empty string the cache file held for sid before the first run
CachedText(sid) == [t |-> "cached", g |-> 0, k |-> sid, m |-> ""]
EmptyString == [t |-> "emptyString", g |-> 0, k |-> 0, m |-> ""]
Undefined == [t |-> "undefined", g |-> 0, k |-> 0, m |-> ""]
\* '[Translating...]'
Placeholder == [t |-> "translating", g |-> 0, k |-> 0, m |-> ""]
\* sentence.text of the unit
OriginalText(sid) == [t |-> "original", g |-> 0, k |-> sid, m |-> ""]

\* translations[sid] as the script holds it: a text of the service is the one
\* produced for unit sid in run r (the service may word it anew in each run)
Received(v, r, sid) ==
  IF v.t = "text" THEN [t |-> "text", g |-> r, k |-> sid, m |-> ""] ELSE v

\* obj[key]
Get(obj, key) == IF key \in DOMAIN obj THEN obj[key] ELSE Undefined
\* the value counts as true in a condition
Truthy(v) == v.t \notin {"emptyString", "undefined"}
\* a || b
OrElse(a, c) == IF Truthy(a) THEN a ELSE c

\* the units of the input book, in document order
bookSids == [j \in 1..units |-> j]

\* what the cache file can hold before the first run: entries for some units
\* of the book and for sid 0, a unit the book no longer has
CacheData(n) ==
  UNION {{[sid \in keys |-> IF sid \in empties THEN EmptyString ELSE CachedText(sid)] :
            empties \in SUBSET keys} : keys \in SUBSET (0..n)}

CacheFiles(n) ==
  {[state |-> x, data |-> <<>>] : x \in {"missing", "unreadable", "unparseable"}}
    \cup {[state |-> "ok", data |-> d] : d \in CacheData(n)}

\* ------------------------------------------------------------- the cache
\* variant: the error of reading or parsing the file reaches the caller
LoadRethrowing(file) ==
  [threw |-> file.state \in {"unreadable", "unparseable"},
   cache |-> IF file.state = "ok" THEN file.data ELSE <<>>]

\* try { if (existsSync) return JSON.parse(readFileSync) } catch { warn }
\* return {}
loadTranslationCache(file) ==
  IF file.state = "missing" THEN [threw |-> FALSE, cache |-> <<>>]
  ELSE IF file.state \in {"unreadable", "unparseable"}
    THEN [threw |-> FALSE, cache |-> <<>>]
    ELSE [threw |-> FALSE, cache |-> file.data]

\* how mkdirSync and writeFileSync can end: the file written; the write
\* refused, file untouched; the write broken off, file cut short
SaveOutcomes == {"ok", "refused", "truncated"}

\* try { mkdirSync; writeFileSync(JSON.stringify(translations)) } catch { warn }
saveTranslationCache(file, map, outcome) ==
  [threw |-> FALSE,
   file |-> CASE outcome = "ok" -> [state |-> "ok", data |-> map]
              [] outcome = "refused" -> file
              [] OTHER -> [state |-> "unparseable", data |-> <<>>]]

\* sentences.filter(item => !cache[item.sid])
filterCachedSentences(list, cache) ==
  SelectSeq(list, LAMBDA sid : ~Truthy(Get(cache, sid)))

\* ---------------------------------------------------- generate-retellings
\* the locals of translateBatch and the options it is called with
frame == <<pc, sentencesWithContext, batchSize, maxParallel, retryAttempts,
           grouped, translations, currents, reported>>

\* translateBatch(list, title, {batchSize: size, maxParallel: par}) is called
\* (p = "init"), or no call of it is under way (p = "none")
Frame(p, list, size, par) ==
  /\ pc' = p
  /\ sentencesWithContext' = list
  /\ batchSize' = size
  /\ maxParallel' = par
  /\ retryAttempts' = DefaultRetryAttempts
  /\ batches' = <<>> /\ b' = 0 /\ st' = <<>> /\ attempt' = <<>>
  /\ lastError' = <<>> /\ content' = <<>> /\ parsed' = <<>>
  /\ batchResults' = <<>> /\ thrown' = <<>> /\ translations' = <<>>
  /\ processedCount' = 0 /\ currents' = <<>>
  /\ reported' = [sid \in {list[j] : j \in 1..Len(list)} |-> 0]
  /\ calls' = <<>> /\ fails' = <<>> /\ waits' = <<>> /\ delay' = <<>>
  /\ wave' = 0 /\ waveOf' = <<>>

\* modernText: translationCache[sid] || '[Translating...]'
InitialPassages(book, cache) ==
  [sid \in {book[j] : j \in 1..Len(book)} |-> OrElse(Get(cache, sid), Placeholder)]

\* if (!translationCache[sid]) sentencesToTranslate.push(...)
RECURSIVE ToTranslateFrom(_, _, _, _)
ToTranslateFrom(book, cache, j, acc) ==
  IF j > Len(book) THEN acc
  ELSE ToTranslateFrom(book, cache, j + 1,
         IF ~Truthy(Get(cache, book[j])) THEN Append(acc, book[j]) ELSE acc)

SentencesToTranslate(book, cache) == ToTranslateFrom(book, cache, 1, <<>>)

\* for (const sid in translations) translationCache[sid] = translations[sid]
MergedCache(cache, tr, r) ==
  [sid \in (DOMAIN cache) \cup (DOMAIN tr) |->
      IF sid \in DOMAIN tr THEN Received(tr[sid], r, sid) ELSE cache[sid]]

\* if (passageMap[sid]) chapter.passages[index].modernText = translations[sid]
MergedPassages(ps, tr, passageMap, r) ==
  [sid \in DOMAIN ps |->
      IF sid \in DOMAIN tr /\ sid \in passageMap
        THEN Received(tr[sid], r, sid) ELSE ps[sid]]

\* generateRetellings(bookId, {skipCache}) up to await fs.readFile
GenerateRetellings(skip) ==
  /\ script = "generate-retellings"
  /\ phase = "idle"
  /\ skipCache' = skip
  /\ atStart' = cacheFile
  /\ phase' = "reading"
  /\ UNCHANGED <<script, config, run, units, cacheFile, translationCache,
                 passages, document, saved, firstDocument>>
  /\ UNCHANGED <<frame, hasKey, deterministic, service, legacy, segmenter, structure,
                 estimator>>

\* the book is read: load the cache, build the passages, call translateBatch
\* for the passages without a cached text, or go on to write the book
BookRead ==
  /\ script = "generate-retellings"
  /\ phase = "reading"
  /\ LET loaded == IF skipCache THEN [threw |-> FALSE, cache |-> <<>>]
                                 ELSE loadTranslationCache(cacheFile)
         list == SentencesToTranslate(bookSids, loaded.cache)
     IN IF loaded.threw
          THEN /\ phase' = "exited"
               /\ UNCHANGED <<translationCache, passages, frame>>
          ELSE /\ translationCache' = loaded.cache
               /\ passages' = InitialPassages(bookSids, loaded.cache)
               /\ IF Len(list) > 0
                    THEN /\ phase' = "translating"
                         /\ Frame("init", list, RetellingsBatchSize,
                                  RetellingsMaxParallel)
                    ELSE /\ phase' = "writing"
                         /\ UNCHANGED frame
  /\ UNCHANGED <<script, skipCache, config, run, units, cacheFile, document,
                 atStart, saved, firstDocument>>
  /\ UNCHANGED <<hasKey, deterministic, service, legacy, segmenter, structure,
                 estimator>>

\* translateBatch has returned: merge, save the cache, write the book
TranslationsReturned(outcome) ==
  /\ script = "generate-retellings"
  /\ phase = "translating"
  /\ pc = "returned"
  /\ LET merged == MergedCache(translationCache, translations, run)
         passageMap == {sentencesWithContext[j] : j \in 1..total}
         res == saveTranslationCache(cacheFile, merged, outcome)
     IN /\ translationCache' = merged
        /\ passages' = MergedPassages(passages, translations, passageMap, run)
        /\ cacheFile' = res.file
        /\ saved' = IF outcome = "ok" THEN "ok" ELSE "failed"
        /\ phase' = IF res.threw THEN "exited" ELSE "writing"
  /\ UNCHANGED <<script, skipCache, config, run, units, document, atStart,
                 firstDocument>>
  /\ UNCHANGED <<frame, hasKey, deterministic, service, legacy, segmenter, structure,
                 estimator>>

\* translateBatch has thrown: catch (error) { process.exit(1) }
TranslateBatchThrew ==
  /\ phase = "translating"
  /\ pc = "threw"
  /\ phase' = "exited"
  /\ UNCHANGED <<script, skipCache, config, run, units, cacheFile,
                 translationCache, passages, document, atStart, saved,
                 firstDocument>>
  /\ UNCHANGED <<frame, hasKey, deterministic, service, legacy, segmenter, structure,
                 estimator>>

\* await fs.writeFile(bookPath, JSON.stringify(bookData)) is over
BookWritten ==
  /\ script = "generate-retellings"
  /\ phase = "writing"
  /\ document' = [written |-> TRUE, modern |-> passages]
  /\ phase' = "done"
  /\ UNCHANGED <<script, skipCache, config, run, units, cacheFile,
                 translationCache, passages, atStart, saved, firstDocument>>
  /\ UNCHANGED <<frame, hasKey, deterministic, service, legacy, segmenter, structure,
                 estimator>>

\* -------------------------------------------------------- preprocess-book
Configs == [translate : BOOLEAN, estimate : BOOLEAN, dryRun : BOOLEAN]

\* modernSentence: translations[sentence.sid] || sentence.text
applyTranslations(book, tr, r) ==
  [sid \in {book[j] : j \in 1..Len(book)} |->
      OrElse(Received(Get(tr, sid), r, sid), OriginalText(sid))]

\* variant: --translate is looked at before --estimate
PreprocessBookTranslateFirst(cfg) ==
  /\ script = "preprocess-book"
  /\ phase = "idle"
  /\ run = 2 => cfg = config
  /\ config' = cfg
  /\ atStart' = cacheFile
  /\ IF cfg.translate /\ ~cfg.dryRun
       THEN /\ phase' = "translating"
            /\ Frame("init", bookSids, DefaultBatchSize, DefaultMaxParallel)
            /\ UNCHANGED document
       ELSE IF cfg.estimate
         THEN /\ phase' = "done"
              /\ UNCHANGED <<document, frame>>
         ELSE /\ phase' = "done"
              /\ document' = [written |-> TRUE, modern |-> <<>>]
              /\ UNCHANGED frame
  /\ UNCHANGED <<script, skipCache, run, units, cacheFile, translationCache,
                 passages, saved, firstDocument>>
  /\ UNCHANGED <<hasKey, deterministic, service, legacy, segmenter, structure,
                 estimator>>

\* main() up to its first await, or to its end: load the book, segment it,
\* prepare the units; --estimate returns here; with --translate and without
\* --dry-run translateBatch is called for every unit; otherwise the
\* structure is written without modern text; a second run is given the
\* options of the first
PreprocessBook(cfg) ==
  /\ script = "preprocess-book"
  /\ phase = "idle"
  /\ run = 2 => cfg = config
  /\ config' = cfg
  /\ atStart' = cacheFile
  /\ IF cfg.estimate
       THEN /\ phase' = "done"
            /\ UNCHANGED <<document, frame>>
       ELSE IF cfg.translate /\ ~cfg.dryRun
         THEN /\ phase' = "translating"
              /\ Frame("init", bookSids, DefaultBatchSize, DefaultMaxParallel)
              /\ UNCHANGED document
         ELSE /\ phase' = "done"
              /\ document' = [written |-> TRUE, modern |-> <<>>]
              /\ UNCHANGED frame
  /\ UNCHANGED <<script, skipCache, run, units, cacheFile, translationCache,
                 passages, saved, firstDocument>>
  /\ UNCHANGED <<hasKey, deterministic, service, legacy, segmenter, structure,
                 estimator>>

\* translateBatch has returned: applyTranslations, write the output file
PreprocessTranslated ==
  /\ script = "preprocess-book"
  /\ phase = "translating"
  /\ pc = "returned"
  /\ document' = [written |-> TRUE,
                  modern |-> applyTranslations(bookSids, translations, run)]
  /\ phase' = "done"
  /\ UNCHANGED <<script, skipCache, config, run, units, cacheFile,
                 translationCache, passages, atStart, saved, firstDocument>>
  /\ UNCHANGED <<frame, hasKey, deterministic, service, legacy, segmenter, structure,
                 estimator>>

\* ------------------------------------------------- a script run, and again
\* the script is started a second time on the same book
NextRun ==
  /\ phase \in {"done", "exited"}
  /\ run = 1
  /\ run' = 2
  /\ phase' = "idle"
  /\ firstDocument' = document
  /\ document' = NoDocument
  /\ translationCache' = <<>>
  /\ passages' = <<>>
  /\ saved' = "none"
  /\ skipCache' = FALSE
  /\ Frame("none", <<>>, DefaultBatchSize, DefaultMaxParallel)
  /\ UNCHANGED <<script, config, units, cacheFile, atStart>>
  /\ UNCHANGED <<hasKey, deterministic, service, legacy, segmenter, structure,
                 estimator>>

PipeInit ==
  /\ script \in {"generate-retellings", "preprocess-book"}
  /\ skipCache = FALSE
  /\ config = NoConfig
  /\ phase = "idle"
  /\ run = 1
  /\ units \in 0..MaxPassages
  /\ cacheFile \in CacheFiles(units)
  /\ translationCache = <<>>
  /\ passages = <<>>
  /\ document = NoDocument
  /\ atStart = cacheFile
  /\ saved = "none"
  /\ firstDocument = NoDocument
  /\ pc = "none"
  /\ hasKey \in BOOLEAN
  /\ sentencesWithContext = <<>>
  /\ batchSize = DefaultBatchSize
  /\ maxParallel = DefaultMaxParallel
  /\ retryAttempts = DefaultRetryAttempts
  /\ deterministic = FALSE
  /\ service = <<>>
  /\ batches = <<>> /\ b = 0 /\ st = <<>> /\ attempt = <<>>
  /\ lastError = <<>> /\ content = <<>> /\ parsed = <<>>
  /\ batchResults = <<>> /\ thrown = <<>> /\ translations = <<>>
  /\ processedCount = 0 /\ currents = <<>> /\ reported = <<>>
  /\ calls = <<>> /\ fails = <<>> /\ waits = <<>> /\ delay = <<>>
  /\ wave = 0 /\ waveOf = <<>>
  /\ i = 0 /\ tries = 0 /\ success = FALSE /\ step = "none" /\ sent = <<>>
  /\ NoSegmenter
  /\ NoStructure
  /\ NoEstimate

PipeNext ==
  \/ \E skip \in BOOLEAN : GenerateRetellings(skip)
  \/ BookRead
  \/ \E outcome \in SaveOutcomes : TranslationsReturned(outcome)
  \/ TranslateBatchThrew
  \/ BookWritten
  \/ \E cfg \in Configs : PreprocessBook(cfg)
  \/ PreprocessTranslated
  \/ NextRun
  \/ NextWith(PlainForms)

PipeSpec == PipeInit /\ [][PipeNext]_vars

\* ------------------------------------------------------ sentence-segmenter
\* A text is a sequence of characters; a character is the string that holds
\* it, or the name of one that is not ASCII: LSQ RSQ (U+2018 U+2019),
\* LDQ RDQ (U+201C U+201D), NDASH MDASH (U+2013 U+2014), NL (line feed).
ABBREVIATIONS ==
  {<<"M", "r">>, <<"M", "r", "s">>, <<"M", "s">>, <<"D", "r">>,
   <<"P", "r", "o", "f">>, <<"S", "r">>, <<"J", "r">>, <<"S", "t">>,
   <<"R", "e", "v">>, <<"H", "o", "n">>, <<"L", "t">>, <<"C", "o", "l">>,
   <<"G", "e", "n">>, <<"C", "a", "p", "t">>, <<"S", "g", "t">>,
   <<"C", "o", "r", "p">>, <<"e", "t", "c">>, <<"v", "s">>,
   <<"v", "o", "l">>, <<"n", "o">>, <<"c", "h", "a", "p">>, <<"c", "h">>,
   <<"f", "i", "g">>, <<"p">>, <<"p", "p">>, <<"v", "i", "z">>,
   <<"i", ".", "e">>, <<"e", ".", "g">>, <<"c", "f">>,
   <<"e", "t", " ", "a", "l">>, <<"J", "a", "n">>, <<"F", "e", "b">>,
   <<"M", "a", "r">>, <<"A", "p", "r">>, <<"M", "a", "y">>,
   <<"J", "u", "n">>, <<"J", "u", "l">>, <<"A", "u", "g">>,
   <<"S", "e", "p">>, <<"O", "c", "t">>, <<"N", "o", "v">>,
   <<"D", "e", "c">>}

UpperCase == <<"A", "B", "C", "D", "E", "F", "G", "H", "I", "J", "K", "L", "M",
                "N", "O", "P", "Q", "R", "S", "T", "U", "V", "W", "X", "Y", "Z">>
LowerCase == <<"a", "b", "c", "d", "e", "f", "g", "h", "i", "j", "k", "l", "m",
                "n", "o", "p", "q", "r", "s", "t", "u", "v", "w", "x", "y", "z">>
Digits == {"0", "1", "2", "3", "4", "5", "6", "7", "8", "9"}

SentencePunct == {".", "!", "?"}
\* \s
WhiteSpace == {" ", "NL"}
\* [\s"'”’]
Closers == WhiteSpace \cup {"\"", "'", "RDQ", "RSQ"}
\* \w
IsWordChar(c) ==
  \/ \E k \in 1..26 : c = UpperCase[k] \/ c = LowerCase[k]
  \/ c \in Digits
  \/ c = "_"

\* variant: letters are compared as they stand (no i flag)
LowerAsIs(c) == c

\* the i flag: letters are compared without regard to case
Lower(c) ==
  IF \E k \in 1..26 : c = UpperCase[k]
    THEN LowerCase[CHOOSE k \in 1..26 : c = UpperCase[k]]
    ELSE c

\* String.prototype.trim
RECURSIVE TrimStart(_)
TrimStart(s) ==
  IF s # <<>> /\ Head(s) \in WhiteSpace THEN TrimStart(Tail(s)) ELSE s

RECURSIVE TrimEnd(_)
TrimEnd(s) ==
  IF s # <<>> /\ s[Len(s)] \in WhiteSpace
    THEN TrimEnd(SubSeq(s, 1, Len(s) - 1)) ELSE s

Trim(s) == TrimEnd(TrimStart(s))

\* the three replace calls that map one character to another
Straighten(c) ==
  CASE c \in {"LSQ", "RSQ"}     -> "'"
    [] c \in {"LDQ", "RDQ"}     -> "\""
    [] c \in {"NDASH", "MDASH"} -> "-"
    [] OTHER                    -> c

\* .replace(/\s+/g, ' ')
RECURSIVE CollapseFrom(_, _, _)
CollapseFrom(s, j, acc) ==
  IF j > Len(s) THEN acc
  ELSE IF s[j] \in WhiteSpace
    THEN CollapseFrom(s, j + 1,
           IF j > 1 /\ s[j - 1] \in WhiteSpace THEN acc ELSE Append(acc, " "))
    ELSE CollapseFrom(s, j + 1, Append(acc, s[j]))

normalizeText(text) ==
  Trim(CollapseFrom([j \in 1..Len(text) |-> Straighten(text[j])], 1, <<>>))

\* where the run of sentence punctuation that starts at q ends: [.!?]+
RECURSIVE RunEnd(_, _)
RunEnd(s, q) ==
  IF q <= Len(s) /\ s[q] \in SentencePunct THEN RunEnd(s, q + 1) ELSE q

\* the length of the match of /([.!?]+[\s"'RDQ RSQ]|[.!?]+$)/ at q, 0 for none
DelimiterAt(s, q) ==
  LET r == RunEnd(s, q) IN
  IF r = q THEN 0
  ELSE IF r <= Len(s) /\ s[r] \in Closers THEN r - q + 1
  ELSE IF r > Len(s) THEN r - q
  ELSE 0

\* String.prototype.split with a separator that captures: the text from p
\* to the next match, then the match, and so on; the rest at the end
RECURSIVE SplitScan(_, _, _, _)
SplitScan(s, p, q, acc) ==
  IF q > Len(s) THEN Append(acc, SubSeq(s, p, Len(s)))
  ELSE LET m == DelimiterAt(s, q) IN
       IF m = 0 THEN SplitScan(s, p, q + 1, acc)
       ELSE SplitScan(s, q + m, q + m,
              acc \o <<SubSeq(s, p, q - 1), SubSeq(s, q, q + m - 1)>>)

SplitParts(s) == SplitScan(s, 1, 1, <<>>)

\* /^[.!?]+[\s"'RDQ RSQ]?$/.test(part)
isDelimiter(part) ==
  LET r == RunEnd(part, 1) IN
  /\ r > 1
  /\ \/ r = Len(part) + 1
     \/ r = Len(part) /\ part[r] \in Closers

\* \b before character p of s
WordBoundary(s, p) ==
  (p > 1 /\ IsWordChar(s[p - 1])) # (p <= Len(s) /\ IsWordChar(s[p]))

\* sentenceBuffer.match(/\b(ABBREV_PATTERN)\.$/i) is not null
lastWord(buffer) ==
  \E a \in ABBREVIATIONS :
    LET p == Len(buffer) - Len(a) IN
    /\ p >= 1
    /\ buffer[Len(buffer)] = "."
    /\ \A k \in 1..Len(a) : Lower(buffer[p + k - 1]) = Lower(a[k])
    /\ WordBoundary(buffer, p)

\* variant: only the punctuation of the delimiter is kept
AppendPunctuation(buffer, part) ==
  buffer \o SubSeq(part, 1, RunEnd(part, 1) - 1)

\* sentenceBuffer += part.trim()
AppendDelimiter(buffer, part) == buffer \o Trim(part)

\* variant: the next sentence starts where the delimiter starts
StartAtDelimiter(pos, part) == pos

\* sentenceStart = currentPos + part.length
NextSentenceStart(pos, part) == pos + Len(part)

\* variant: the sid is numbered from sentenceIndex itself
SentenceFromZero(text) ==
  [sid |-> sentenceIndex, text |-> text,
   start |-> sentenceStart, end |-> sentenceStart + Len(text)]

\* the sid is the number after paragraphId and "_s"
Sentence(text) ==
  [sid |-> sentenceIndex + 1, text |-> text,
   start |-> sentenceStart, end |-> sentenceStart + Len(text)]

translator == <<pc, params, grouped, translations, currents, reported,
                legacy, pipeline, structure, estimator>>

\* const normalized ... let sentenceIndex = 0
SegmentParagraph ==
  /\ segpc = "called"
  /\ normalized' = normalizeText(paragraphText)
  /\ parts' = SplitParts(normalized')
  /\ partIndex' = 0
  /\ currentPos' = 0
  /\ sentenceBuffer' = <<>>
  /\ sentenceStart' = 0
  /\ sentenceIndex' = 0
  /\ sentences' = <<>>
  /\ segpc' = "loop"
  /\ UNCHANGED <<paragraphText, translator>>

InLoop == segpc = "loop" /\ partIndex < Len(parts)

part == parts[partIndex + 1]

\* if (!part) continue
SkipEmptyPart ==
  /\ InLoop
  /\ part = <<>>
  /\ partIndex' = partIndex + 1
  /\ UNCHANGED <<segpc, paragraphText, normalized, parts, currentPos,
                 sentenceBuffer, sentenceStart, sentenceIndex, sentences,
                 translator>>

\* the branch of isDelimiter
DelimiterPart ==
  /\ InLoop
  /\ part # <<>>
  /\ isDelimiter(part)
  /\ LET buffer == AppendDelimiter(sentenceBuffer, part)
         sentenceText == Trim(buffer)
     IN IF ~lastWord(buffer) /\ Len(sentenceText) > 0
          THEN /\ sentences' = Append(sentences, Sentence(sentenceText))
               /\ sentenceIndex' = sentenceIndex + 1
               /\ sentenceBuffer' = <<>>
               /\ sentenceStart' = NextSentenceStart(currentPos, part)
          ELSE /\ sentenceBuffer' = buffer
               /\ UNCHANGED <<sentences, sentenceIndex, sentenceStart>>
  /\ currentPos' = currentPos + Len(part)
  /\ partIndex' = partIndex + 1
  /\ UNCHANGED <<segpc, paragraphText, normalized, parts, translator>>

\* the else branch: sentenceBuffer += part
TextPart ==
  /\ InLoop
  /\ part # <<>>
  /\ ~isDelimiter(part)
  /\ sentenceBuffer' = sentenceBuffer \o part
  /\ currentPos' = currentPos + Len(part)
  /\ partIndex' = partIndex + 1
  /\ UNCHANGED <<segpc, paragraphText, normalized, parts, sentenceStart,
                 sentenceIndex, sentences, translator>>

\* after the loop: the remaining text, and return
ReturnSentences ==
  /\ segpc = "loop"
  /\ partIndex = Len(parts)
  /\ LET remaining == Trim(sentenceBuffer) IN
     sentences' = IF Len(remaining) > 0
                    THEN Append(sentences, Sentence(remaining))
                    ELSE sentences
  /\ segpc' = "returned"
  /\ UNCHANGED <<paragraphText, normalized, parts, partIndex, currentPos,
                 sentenceBuffer, sentenceStart, sentenceIndex, translator>>

\* the paragraphs segmentParagraph is applied to
Alphabet == {"a", "p", ".", "!", " ", "\""}
TypedAlphabet == {"a", ".", " ", "NL", "LSQ", "RDQ", "MDASH"}
TextsUpTo(S, n) == UNION {[1..k -> S] : k \in 0..n}

Example ==
  <<"D", "r", ".", " ", "S", "m", "i", "t", "h", " ", "l", "e",
    "f", "t", ".", " ", "H", "e", " ", "r", "e", "t", "u", "r",
    "n", "e", "d", ".">>
ExampleTail ==
  <<"S", "m", "i", "t", "h", " ", "l", "e", "f", "t", ".", " ",
    "H", "e", " ", "r", "e", "t", "u", "r", "n", "e", "d", ".">>

\* the same letter in the other case; any other character itself
OtherCase(c) ==
  IF \E k \in 1..26 : c = LowerCase[k]
    THEN UpperCase[CHOOSE k \in 1..26 : c = LowerCase[k]]
  ELSE IF \E k \in 1..26 : c = UpperCase[k]
    THEN LowerCase[CHOOSE k \in 1..26 : c = UpperCase[k]]
  ELSE c

\* an abbreviation in every mix of upper and lower case
CaseVariants(a) ==
  {[k \in 1..Len(a) |-> IF k \in S THEN OtherCase(a[k]) ELSE a[k]] :
     S \in SUBSET (1..Len(a))}

Prefixes == {<<>>, <<"a", " ">>, <<"a", ".", " ">>, <<"D", "r", ".", " ">>,
             <<"LDQ">>}
Gaps == {<<" ">>, <<"NL">>}
Suffixes == {<<"x">>, <<"x", ".", " ", "y", ".">>, ExampleTail}

\* prefix, abbreviation, one period, whitespace, more text
AbbreviationTexts ==
  {pre \o v \o <<".">> \o gap \o post :
     pre \in Prefixes,
     v \in UNION {CaseVariants(a) : a \in ABBREVIATIONS},
     gap \in Gaps, post \in Suffixes}

Paragraphs ==
  TextsUpTo(Alphabet, MaxLen) \cup TextsUpTo(TypedAlphabet, MaxTyped)
    \cup AbbreviationTexts \cup {Example}

\* no call of translateBatch is under way
NoTranslateBatch ==
  /\ pc = "none"
  /\ hasKey = FALSE
  /\ sentencesWithContext = <<>>
  /\ batchSize = DefaultBatchSize
  /\ maxParallel = DefaultMaxParallel
  /\ retryAttempts = DefaultRetryAttempts
  /\ deterministic = FALSE
  /\ service = <<>>
  /\ batches = <<>> /\ b = 0 /\ st = <<>> /\ attempt = <<>>
  /\ lastError = <<>> /\ content = <<>> /\ parsed = <<>>
  /\ batchResults = <<>> /\ thrown = <<>> /\ translations = <<>>
  /\ processedCount = 0 /\ currents = <<>> /\ reported = <<>>
  /\ calls = <<>> /\ fails = <<>> /\ waits = <<>> /\ delay = <<>>
  /\ wave = 0 /\ waveOf = <<>>
  /\ i = 0 /\ tries = 0 /\ success = FALSE /\ step = "none" /\ sent = <<>>

SegInit ==
  /\ NoTranslateBatch
  /\ NoScript
  /\ NoStructure
  /\ NoEstimate
  /\ segpc = "called"
  /\ paragraphText \in Paragraphs
  /\ normalized = <<>>
  /\ parts = <<>>
  /\ partIndex = 0
  /\ currentPos = 0
  /\ sentenceBuffer = <<>>
  /\ sentenceStart = 0
  /\ sentenceIndex = 0
  /\ sentences = <<>>

SegNext ==
  \/ SegmentParagraph
  \/ SkipEmptyPart
  \/ DelimiterPart
  \/ TextPart
  \/ ReturnSentences

SegSpec == SegInit /\ [][SegNext]_vars

\* ----------------------------------------- preprocess-book: the structure
\* ids are sequences of their pieces: chapter id, "_p", number, "_s", number
Numerals == <<"1", "2", "3", "4", "5", "6", "7", "8", "9">>
\* null
Null == <<"null">>
\* `m_${...}`
ModernPrefix == <<"m_">>

\* what segmentParagraph returns for the paragraph "a. bb. ccc. ...": the
\* text of sentence k is k times the k-th letter and a period
SegmentedText(k) == [j \in 1..k |-> LowerCase[k]] \o <<".">>

RECURSIVE StartOf(_)
StartOf(k) ==
  IF k = 1 THEN 0 ELSE StartOf(k - 1) + Len(SegmentedText(k - 1)) + 1

RECURSIVE ParagraphTextOf(_)
ParagraphTextOf(n) ==
  IF n = 0 THEN <<>>
  ELSE IF n = 1 THEN SegmentedText(1)
  ELSE ParagraphTextOf(n - 1) \o <<" ">> \o SegmentedText(n)

\* processChapter: pid, text and sentences of paragraph p with n sentences
ParagraphOf(id, p, n) ==
  LET pid == id \o <<"_p", Numerals[p]>> IN
  [pid |-> pid,
   text |-> ParagraphTextOf(n),
   sentences |-> [k \in 1..n |->
                    [sid |-> pid \o <<"_s", Numerals[k]>>,
                     text |-> SegmentedText(k),
                     start |-> StartOf(k),
                     end |-> StartOf(k) + Len(SegmentedText(k))]]]

\* a processed chapter whose paragraphs have shape[p] sentences each
ChapterOf(c, shape) ==
  LET id == <<"ch", Numerals[c]>> IN
  [chapter_id |-> id,
   paragraphs |-> [p \in 1..Len(shape) |-> ParagraphOf(id, p, shape[p])]]

ChapterCounts == {0, 1, 2}
ChapterShapes ==
  UNION {[1..n -> 1..MaxSentences] : n \in 0..MaxParagraphs}
Books ==
  UNION {{[c \in 1..n |-> ChapterOf(c, shapes[c])] :
            shapes \in [1..n -> ChapterShapes]} : n \in ChapterCounts}

RECURSIVE Flat(_)
Flat(ss) == IF ss = <<>> THEN <<>> ELSE Head(ss) \o Flat(Tail(ss))

\* variant: the neighbours are taken the other way round
ContextWindowSwapped(sents, index, paraText) ==
  [paragraph |-> paraText,
   prev_sentence |-> IF index < Len(sents) - 1
                       THEN sents[index + 2].text ELSE Null,
   next_sentence |-> IF index > 0 THEN sents[index].text ELSE Null]

\* createContextWindow(sentences, sentenceIndex, paragraphText); the index
\* is 0-based as in the source, sents is indexed from 1
createContextWindow(sents, index, paraText) ==
  [paragraph |-> paraText,
   prev_sentence |-> IF index > 0 THEN sents[index].text ELSE Null,
   next_sentence |-> IF index < Len(sents) - 1
                       THEN sents[index + 2].text ELSE Null]

prepareSentencesForTranslation(book) ==
  Flat([c \in 1..Len(book) |->
    Flat([p \in 1..Len(book[c].paragraphs) |->
      LET paragraph == book[c].paragraphs[p] IN
      [k \in 1..Len(paragraph.sentences) |->
         [sid |-> paragraph.sentences[k].sid,
          sentence |-> paragraph.sentences[k].text,
          context |-> createContextWindow(paragraph.sentences, k - 1,
                                          paragraph.text),
          chapterId |-> book[c].chapter_id,
          paragraphId |-> paragraph.pid]]])])

\* translations[sentence.sid] || sentence.text
ModernSentenceText(tr, sentence) ==
  IF sentence.sid \in DOMAIN tr /\ tr[sentence.sid] # <<>>
    THEN tr[sentence.sid] ELSE sentence.text

\* the loop over paragraph.sentences: acc holds modernSentences, modernText
RECURSIVE ModernFrom(_, _, _, _)
ModernFrom(sents, tr, k, acc) ==
  IF k > Len(sents) THEN acc
  ELSE LET modernSentence == ModernSentenceText(tr, sents[k]) IN
       ModernFrom(sents, tr, k + 1,
         [sentences |-> Append(acc.sentences,
                          [sid |-> ModernPrefix \o sents[k].sid,
                           text |-> modernSentence,
                           start |-> Len(acc.text),
                           end |-> Len(acc.text) + Len(modernSentence)]),
          text |-> acc.text
                     \o (IF acc.text # <<>> THEN <<" ">> ELSE <<>>)
                     \o modernSentence])

\* '[Translation failed: service error]'
FailedText ==
  <<"[", "T", "r", "a", "n", "s", "l", "a", "t", "i", "o", "n",
    " ", "f", "a", "i", "l", "e", "d", ":", " ", "s", "e", "r",
    "v", "i", "c", "e", " ", "e", "r", "r", "o", "r", "]">>
IsFailedText(t) == Len(t) >= 2 /\ SubSeq(t, 1, 2) = <<"[", "T">>

\* variant: a sentence whose translation failed is left out
ModernParagraphOmitting(paragraph, tr) ==
  LET kept == SelectSeq(paragraph.sentences,
                LAMBDA s : ~IsFailedText(ModernSentenceText(tr, s)))
      r == ModernFrom(kept, tr, 1, [sentences |-> <<>>, text |-> <<>>])
  IN [pid |-> ModernPrefix \o paragraph.pid,
      text |-> r.text, sentences |-> r.sentences]

\* chapter.modern_paragraphs.push({pid, text, sentences})
ModernParagraph(paragraph, tr) ==
  LET r == ModernFrom(paragraph.sentences, tr, 1,
                      [sentences |-> <<>>, text |-> <<>>])
  IN [pid |-> ModernPrefix \o paragraph.pid,
      text |-> r.text, sentences |-> r.sentences]

ChapterSentences(chapter) ==
  Flat([p \in 1..Len(chapter.paragraphs) |-> chapter.paragraphs[p].sentences])

ChapterSids(chapter) ==
  {ChapterSentences(chapter)[k].sid : k \in 1..Len(ChapterSentences(chapter))}

\* applyTranslations(processedBook, translations): the chapters of result
AppliedChapters(book, tr) ==
  [c \in 1..Len(book) |->
     [chapter_id |-> book[c].chapter_id,
      paragraphs |-> book[c].paragraphs,
      modern_paragraphs |->
        [p \in 1..Len(book[c].paragraphs) |->
           ModernParagraph(book[c].paragraphs[p], tr)],
      alignment |->
        [original_to_modern |->
           [sid \in ChapterSids(book[c]) |-> ModernPrefix \o sid]]]]

\* what translateBatch can have stored for a sentence: a modern text; the
\* failure sentinel; the empty string; nothing
Modernized(text) == <<"N", "o", "w", " ">> \o text
AbnormalKinds == {"failed", "empty", "missing"}

BookSentences(book) ==
  Flat([c \in 1..Len(book) |-> ChapterSentences(book[c])])

\* the maps in which no sentence, one sentence or every sentence of the
\* book is abnormal in one of the three ways
TranslationMaps(book) ==
  LET all == BookSentences(book)
      sids == {all[k].sid : k \in 1..Len(all)}
      textOf(sid) == (CHOOSE k \in 1..Len(all) : all[k].sid = sid)
      MapFor(S, kind) ==
        [sid \in (IF kind = "missing" THEN sids \ S ELSE sids) |->
           IF sid \in S
             THEN (IF kind = "failed" THEN FailedText ELSE <<>>)
             ELSE Modernized(all[textOf(sid)].text)]
  IN {MapFor(S, kind) :
        S \in {{}} \cup {{sid} : sid \in sids} \cup {sids},
        kind \in AbnormalKinds}

bystanders == <<pc, params, grouped, translations, currents, reported,
                legacy, pipeline, segmenter, estimator>>

\* const sentencesWithContext = prepareSentencesForTranslation(processedBook)
PrepareSentences ==
  /\ bookpc = "structured"
  /\ prepared' = prepareSentencesForTranslation(processedBook)
  /\ bookpc' = "prepared"
  /\ UNCHANGED <<processedBook, given, finalBook, bystanders>>

\* finalBook = applyTranslations(processedBook, translations)
ApplyTranslations ==
  /\ bookpc = "prepared"
  /\ \E tr \in TranslationMaps(processedBook) :
       /\ given' = tr
       /\ finalBook' = AppliedChapters(processedBook, tr)
  /\ bookpc' = "applied"
  /\ UNCHANGED <<processedBook, prepared, bystanders>>

StructInit ==
  /\ NoTranslateBatch
  /\ NoScript
  /\ NoSegmenter
  /\ NoEstimate
  /\ bookpc = "structured"
  /\ processedBook \in Books
  /\ prepared = <<>>
  /\ given = <<>>
  /\ finalBook = <<>>

StructNext ==
  \/ PrepareSentences
  \/ ApplyTranslations

StructSpec == StructInit /\ [][StructNext]_vars

\* ------------------------------------------------------------ estimateCost
\* Costs are counted in units of 0.0000001 dollar: a token that costs 0.10
\* dollar per million costs one unit. A cost is a Number: the nearest double
\* to the value, which lies below it, on it or above it.
FloatErrors == {"below", "exact", "above"}

\* Math.ceil(avgContextLength / 4), for an integer length
CeilTokens(len) == (len + CharsPerToken - 1) \div CharsPerToken

\* Number.prototype.toFixed(4) of a cost whose value is `value` and whose
\* double lies on the side `err` of it: the integer n for which n / 10^4 is
\* nearest to the double, the larger one of two; the string shows n
toFixed4(value, err) ==
  LET n == value \div UnitsPerDigit
      r == value % UnitsPerDigit
  IN IF 2 * r > UnitsPerDigit THEN n + 1
     ELSE IF 2 * r < UnitsPerDigit THEN n
     ELSE IF err = "below" THEN n ELSE n + 1

estimateCost(count, len, errIn, errOut, errSum) ==
  LET avgInputTokens == CeilTokens(len)
      totalInputTokens == count * avgInputTokens
      totalOutputTokens == count * AvgOutputTokens
      inputCost == totalInputTokens * InputCostPer1M
      outputCost == totalOutputTokens * OutputCostPer1M
  IN [sentenceCount |-> count,
      estimatedInputTokens |-> totalInputTokens,
      estimatedOutputTokens |-> totalOutputTokens,
      estimatedInputCost |-> toFixed4(inputCost, errIn),
      estimatedOutputCost |-> toFixed4(outputCost, errOut),
      estimatedTotalCost |-> toFixed4(inputCost + outputCost, errSum)]

ExampleEstimate == <<100, 400>>
EstimateInputs ==
  ((0..MaxCount) \X (0..MaxContext)) \cup {ExampleEstimate}

CostInit ==
  /\ NoTranslateBatch
  /\ NoScript
  /\ NoSegmenter
  /\ NoStructure
  /\ costpc = "called"
  /\ \E in \in EstimateInputs :
       /\ sentenceCount = in[1]
       /\ avgContextLength = in[2]
  /\ costEstimate = <<>>

EstimateCost ==
  /\ costpc = "called"
  /\ \E errIn \in FloatErrors, errOut \in FloatErrors, errSum \in FloatErrors :
       costEstimate' = estimateCost(sentenceCount, avgContextLength,
                                    errIn, errOut, errSum)
  /\ costpc' = "returned"
  /\ UNCHANGED <<sentenceCount, avgContextLength, pc, params, grouped,
                 translations, currents, reported, legacy, pipeline,
                 segmenter, structure>>

CostNext == EstimateCost

CostSpec == CostInit /\ [][CostNext]_vars

\* ==================================================================== claims
GroupSids(g) == {batches[g][k] : k \in 1..Len(batches[g])}
InFlight == {g \in Groups : st[g] = "calling"}

\* C1: once translateBatch has returned, the key set of the returned map is
\* exactly the set of the input sids (no unit dropped, no extra key); stated
\* for the batched translateBatch (Spec) and for the one-sentence-at-a-time
\* translateBatch (LegacySpec) alike.
C1_KeySetEqualsSids == pc = "returned" => DOMAIN translations = Sids

\* C2: a group that failed on every attempt does not make translateBatch
\* reject: its catch handler stores "[Translation failed: <message of the last
\* error>]" under every sid of the group and touches no other entry, the
\* sentinels stay in place, and the run goes on until every group has settled.
C2_State ==
  /\ hasKey => pc # "threw"
  /\ pc = "returned" => \A g \in Groups : st[g] \in Settled
  /\ \A g \in Groups : st[g] = "failed" =>
        \A sid \in GroupSids(g) :
           sid \in DOMAIN translations /\ translations[sid] = FailedSentinel(thrown[g])

C2_Step ==
  \A g \in Groups :
    (st[g] = "rejected" /\ fails[g] >= 1 /\ st'[g] = "failed") =>
       /\ fails[g] = retryAttempts
       /\ thrown[g] = lastError[g]
       /\ \A sid \in GroupSids(g) :
             sid \in DOMAIN translations'
               /\ translations'[sid] = FailedSentinel(lastError[g])
       /\ \A sid \in (DOMAIN translations) \ GroupSids(g) :
             sid \in DOMAIN translations' /\ translations'[sid] = translations[sid]
       /\ DOMAIN translations' \subseteq (DOMAIN translations) \cup GroupSids(g)
       /\ pc' = "running"

C2_FailedGroupGetsSentinels == []C2_State /\ [][C2_Step]_vars

C2_Witness ==
  /\ pc = "returned"
  /\ retryAttempts >= 2
  /\ \E g, h \in Groups :
       /\ waveOf[g] < waveOf[h]
       /\ Len(batches[g]) >= 2
       /\ st[g] = "failed" /\ thrown[g] \in ErrMsgs
       /\ st[h] = "fulfilled"
       /\ \E sid \in GroupSids(h) : translations[sid].t = "text"

\* C3: the progress callback is invoked exactly once per input unit and the
\* values of `current` it receives are 1, 2, ..., total: never above total
\* during the run, and complete once translateBatch has returned.
C3_ProgressOncePerUnit ==
  /\ Len(currents) <= total
  /\ \A k \in 1..Len(currents) : currents[k] = k
  /\ \A sid \in Sids : reported[sid] <= 1
  /\ (pc = "returned") =>
        /\ Len(currents) = total
        /\ \A sid \in Sids : reported[sid] = 1

\* C4: at every moment the number of service calls issued and not yet settled
\* is at most maxParallel.
C4_InFlightAtMostMaxParallel == Cardinality(InFlight) <= maxParallel

C4_Witness ==
  /\ maxParallel >= 2
  /\ Len(batches) > maxParallel
  /\ Cardinality(InFlight) = maxParallel
  /\ \E g \in InFlight : calls[g] >= 2

\* C5: group k (counted from 0) belongs to wave k div maxParallel, and a group
\* is issued only when every group of every earlier wave has settled, that is,
\* its chain has run its then or catch handler after all retries and waits.
C5_WaveAfterWave ==
  \A g \in Groups :
    st[g] # "pending" =>
      /\ waveOf[g] = (g - 1) \div maxParallel
      /\ \A h \in Groups :
           (h - 1) \div maxParallel < (g - 1) \div maxParallel => st[h] \in Settled

C5_Witness ==
  \E g, h \in Groups :
    /\ waveOf[h] = 0 /\ st[h] = "failed" /\ thrown[h] \in ErrMsgs
    /\ waveOf[g] = 1 /\ st[g] = "calling"
    /\ retryAttempts >= 2

\* C6: with a service whose answer depends only on the group it is given, the
\* map translateBatch returns is a function of the input, batchSize,
\* retryAttempts and the service alone: the same for maxParallel = 1, 2, 3 and
\* for every order in which the groups of a wave complete.
C6_Expected(g, idx) ==
  LET out == service[g] IN
    IF retryAttempts = 0 THEN FailedSentinel(NoAttemptMsg)
    ELSE IF ~out.ok THEN FailedSentinel(out.msg)
    ELSE IF ~ParseContent(out.form).ok
      THEN FailedSentinel(ParseContent(out.form).msg)
    ELSE IF \E k \in 1..Len(out.kinds) : out.kinds[k] = "other"
      THEN FailedSentinel(NotAFunctionMsg)
    ELSE IF out.kinds[idx + 1] = "text" THEN Text(g, idx + 1)
    ELSE IndexSentinel(idx)

C6_SameForEveryMaxParallel ==
  pc = "returned" =>
    /\ DOMAIN translations = Sids
    /\ \A g \in Groups : \A idx \in 0..(Len(batches[g]) - 1) :
          translations[batches[g][idx + 1]] = C6_Expected(g, idx)

C6_Witness ==
  /\ pc = "returned"
  /\ deterministic
  /\ Len(batches) = 3
  /\ maxParallel = 2
  /\ retryAttempts >= 2
  /\ ~service[1].ok
  /\ service[2].ok /\ service[2].kinds[1] = "text"
  /\ service[3].ok /\ service[3].kinds[1] = "missing"

\* C7: translateBatchGroup issues at most retryAttempts calls for a group,
\* none after an attempt has succeeded, and rejects only after exactly
\* retryAttempts failed attempts; a wait of BaseDelay * 2^attempt follows each
\* failed attempt but the last.
C7_State ==
  \A g \in Groups :
    /\ calls[g] <= retryAttempts
    /\ st[g] \in {"calling", "resolved"} =>
          calls[g] = fails[g] + 1 /\ waits[g] = fails[g]
    /\ st[g] = "backoff" =>
          /\ calls[g] = fails[g] /\ waits[g] = fails[g]
          /\ fails[g] < retryAttempts
          /\ delay[g] = BaseDelay * Pow2(fails[g] - 1)
    /\ st[g] = "rejected" =>
          /\ fails[g] = retryAttempts /\ calls[g] = retryAttempts
          /\ waits[g] = IF retryAttempts = 0 THEN 0 ELSE retryAttempts - 1

C7_Step ==
  \A g \in Groups :
    st[g] \notin {"pending", "calling", "backoff"} => calls'[g] <= calls[g]

C8_Terminates == <>(IF hasKey THEN pc = "returned" ELSE pc = "threw")

C8_Witness ==
  /\ pc = "returned"
  /\ wave >= 2
  /\ retryAttempts >= 2
  /\ \E sid \in Sids : translations[sid].t = "failed" /\ translations[sid].m \in ErrMsgs
  /\ \E sid \in Sids : translations[sid].t = "text"

\* C9: the n input units are split into ceil(n / batchSize) consecutive
\* groups, group k (from 0) holding exactly the units at positions
\* k*batchSize .. min(n, (k+1)*batchSize) - 1 in input order; so no group is
\* empty and every group but the last has batchSize units.
C9_ConsecutiveGroups ==
  pc \in {"running", "returned"} =>
    /\ Len(batches) = (total + batchSize - 1) \div batchSize
    /\ \A k \in 0..(Len(batches) - 1) :
         LET first == k * batchSize
             last == Min(total, (k + 1) * batchSize) - 1
         IN /\ Len(batches[k + 1]) = last - first + 1
            /\ Len(batches[k + 1]) >= 1
            /\ k < Len(batches) - 1 => Len(batches[k + 1]) = batchSize
            /\ \A p \in first..last :
                  batches[k + 1][p - first + 1] = sentencesWithContext[p + 1]

C9_Witness ==
  /\ pc = "running"
  /\ total = 3
  /\ batchSize = 2
  /\ Len(batches) = 2
  /\ batches[2] = <<sentencesWithContext[3]>>

\* C10 (as stated): when the parsed response lacks the key of some units,
\* translateBatchGroup resolves on that attempt, every unit whose key is
\* present gets exactly the parsed text of its own key, and every unit whose
\* key is missing gets the "[Translation failed for index N]" sentinel.
C10_ParsedValue(g, key) ==
  [t |-> parsed[g][key], g |-> g, k |-> key, m |-> ""]

C10_PresentKeysKeepParsedText ==
  \A g \in Groups :
    (st[g] = "resolved" /\ \E key \in 1..Len(parsed[g]) : parsed[g][key] = "missing") =>
      /\ calls[g] = fails[g] + 1
      /\ DOMAIN batchResults[g] = GroupSids(g)
      /\ \A idx \in 0..(Len(batches[g]) - 1) :
           LET v == batchResults[g][batches[g][idx + 1]]
           IN IF parsed[g][idx + 1] = "missing"
                THEN v.t = "failedIndex"
                ELSE v = C10_ParsedValue(g, idx + 1)

\* C10 (amended): translateBatchGroup resolves on the attempt whose response
\* parsed, with an entry for every unit of the group: the unit at 0-based
\* position idx gets exactly the value under key idx+1 when that value is
\* truthy, and the sentinel "[Translation failed for index idx]" when the key
\* is missing or its value is falsy (such as an empty string).
C10_TruthyKeptFalsyOrMissingSentinel ==
  \A g \in Groups :
    st[g] = "resolved" =>
      /\ calls[g] = fails[g] + 1
      /\ DOMAIN batchResults[g] = GroupSids(g)
      /\ \A idx \in 0..(Len(batches[g]) - 1) :
           LET v == batchResults[g][batches[g][idx + 1]]
           IN IF parsed[g][idx + 1] \in {"text", "other"}
                THEN v = C10_ParsedValue(g, idx + 1)
                ELSE v = IndexSentinel(idx)

C10_Witness ==
  \E g \in Groups :
    /\ st[g] = "resolved"
    /\ parsed[g] = <<"text", "missing">>
    /\ batchResults[g][batches[g][1]] = Text(g, 1)
    /\ batchResults[g][batches[g][2]] = IndexSentinel(1)

\* C11: a response text from which no object is parsed (JSON.parse throws, and
\* the span from its first '{' to its last '}' is absent or does not parse
\* either) fails the attempt just as a rejected call does: the error becomes
\* lastError, a backoff wait and a retry follow while attempts remain, and
\* after the last attempt the group rejects and each of its units gets the
\* "[Translation failed: ...]" sentinel; nothing of that response is stored in
\* parsed, in the group's map or in the aggregate map.
C11_Unparseable == {"noBraces", "badBraces"}

C11_Msg(form) == IF form = "noBraces" THEN NoJsonMsg ELSE SyntaxErrorMsg

C11_FailsAttempt(g, msg) ==
  /\ lastError'[g] = msg
  /\ fails'[g] = fails[g] + 1
  /\ parsed'[g] = <<>> /\ batchResults'[g] = <<>>
  /\ translations' = translations /\ processedCount' = processedCount
  /\ IF attempt[g] < retryAttempts - 1
       THEN /\ st'[g] = "backoff"
            /\ delay'[g] = BaseDelay * Pow2(attempt[g])
            /\ calls'[g] = calls[g]
       ELSE /\ st'[g] = "rejected"
            /\ thrown'[g] = msg
            /\ calls'[g] = retryAttempts

C11_Step ==
  \A g \in Groups :
    st[g] = "calling" =>
      /\ content'[g] \in C11_Unparseable =>
            C11_FailsAttempt(g, C11_Msg(content'[g]))
      /\ (content'[g] = "" /\ fails'[g] # fails[g]) =>
            \E msg \in ErrMsgs : C11_FailsAttempt(g, msg)

C11_State ==
  \A g \in Groups :
    /\ st[g] = "resolved" => content[g] \notin C11_Unparseable
    /\ content[g] \in C11_Unparseable =>
          /\ st[g] \in {"backoff", "rejected"}
          /\ lastError[g] = C11_Msg(content[g])
    /\ (st[g] = "failed" /\ thrown[g] \in {NoJsonMsg, SyntaxErrorMsg}) =>
          \A sid \in GroupSids(g) :
             sid \in DOMAIN translations
               /\ translations[sid] = FailedSentinel(thrown[g])

C11_UnparseableFailsLikeTransport == []C11_State /\ [][C11_Step]_vars

C11_Witness ==
  /\ pc = "returned"
  /\ retryAttempts >= 2
  /\ \E g, h \in Groups :
       /\ Len(batches[g]) >= 2
       /\ st[g] = "failed" /\ thrown[g] = SyntaxErrorMsg
       /\ \A sid \in GroupSids(g) : translations[sid] = FailedSentinel(SyntaxErrorMsg)
       /\ st[h] = "failed" /\ thrown[h] = NoJsonMsg

\* the entries the cache file held when the run started
StartData == IF atStart.state = "ok" THEN atStart.data ELSE <<>>

\* the units that were part of a service call of this run
Included == UNION {GroupSids(g) : g \in {h \in Groups : st[h] # "pending"}}

\* C12: a second run of the script on the same book, with the cache as the
\* first run left it and without --skip-cache, issues no service call, and the
\* document it writes is the document the first run wrote.
C12_SecondRunIdempotent ==
  (run = 2 /\ firstDocument.written /\ ~skipCache) =>
     /\ Included = {}
     /\ phase = "done" => document = firstDocument

\* C13: in a run without --skip-cache no unit whose sid has an entry in the
\* cache is part of a service call, and the text the written document holds
\* for such a unit is the cached text.
C13_CachedNeverSentAndVerbatim ==
  ~skipCache =>
    \A sid \in (DOMAIN StartData) \cap (1..units) :
      /\ sid \notin Included
      /\ (phase = "done" /\ sid \in DOMAIN document.modern) =>
            document.modern[sid] = StartData[sid]

\* C14: filterCachedSentences(units, cache) is the list of the units whose sid
\* is not a key of the cache, in input order, whatever value the key holds;
\* and the passages generateRetellings sends to translateBatch are that list.
C14_Uncached(list, cache) == SelectSeq(list, LAMBDA sid : sid \notin DOMAIN cache)

C14_RemovedIffKey ==
  (script = "generate-retellings" /\ phase = "translating") =>
     /\ filterCachedSentences(bookSids, translationCache)
          = C14_Uncached(bookSids, translationCache)
     /\ sentencesWithContext = C14_Uncached(bookSids, translationCache)

\* C15: a run only adds entries to the cache file: every sid that had an entry
\* when the run started has the same value in the file during and after the
\* run, with and without --skip-cache, whatever the service answers.
C15_RunOnlyAdds ==
  \A sid \in DOMAIN StartData :
    /\ cacheFile.state = "ok"
    /\ sid \in DOMAIN cacheFile.data
    /\ cacheFile.data[sid] = StartData[sid]

\* C16: no failure of the cache file ends a run of generate-retellings: with a
\* missing, unreadable or unparseable file loadTranslationCache gives the empty
\* map and every unit is sent to translateBatch; after a failed
\* saveTranslationCache the book is still written and holds the translations
\* obtained; the run exits only when translateBatch throws.
C16_Requested == {sentencesWithContext[j] : j \in 1..total}

C16_State ==
  script = "generate-retellings" =>
    /\ phase = "exited" => (pc = "threw" /\ ~hasKey)
    /\ saved = "failed" => phase \in {"writing", "done"}
    /\ (phase = "translating" /\ ~skipCache /\ atStart.state # "ok") =>
          /\ translationCache = <<>>
          /\ sentencesWithContext = bookSids
    /\ phase = "done" =>
          /\ document.written
          /\ DOMAIN document.modern = 1..units
          /\ \A sid \in C16_Requested :
                document.modern[sid] = Received(translations[sid], run, sid)

C16_Step ==
  script = "generate-retellings" =>
    /\ (phase = "reading" /\ phase' # "reading" /\ ~skipCache
           /\ cacheFile.state # "ok") =>
          /\ translationCache' = <<>>
          /\ phase' = IF units > 0 THEN "translating" ELSE "writing"
    /\ (phase = "translating" /\ saved' = "failed") =>
          /\ phase' = "writing"
          /\ \A sid \in C16_Requested :
                passages'[sid] = Received(translations[sid], run, sid)

C16_CacheFailuresNeverAbort == []C16_State /\ [][C16_Step]_vars

C16_Witness ==
  /\ script = "generate-retellings"
  /\ phase = "done"
  /\ run = 1
  /\ ~skipCache
  /\ atStart.state = "unparseable"
  /\ saved = "failed"
  /\ units >= 2
  /\ document.written
  /\ document.modern[1].t = "text"
  /\ document.modern[2].t = "failedIndex"

\* ---- segmentParagraph
Texts == [k \in 1..Len(sentences) |-> sentences[k].text]

\* the part of the normalized text from the start of sentence k to the
\* start of the next one (to the end for the last one)
Span(k) ==
  SubSeq(normalized, sentences[k].start + 1,
         IF k < Len(sentences) THEN sentences[k + 1].start
                               ELSE Len(normalized))

ExampleTexts ==
  <<<<"D", "r", ".", " ", "S", "m", "i", "t", "h", " ", "l", "e", "f", "t", ".">>,
    <<"H", "e", " ", "r", "e", "t", "u", "r", "n", "e", "d", ".">>>>

\* C17: segmentParagraph("Dr. Smith left. He returned.") returns exactly
\* two sentences, with the texts "Dr. Smith left." and "He returned."; and
\* every returned sentence text keeps every character of its span of the
\* normalized text (the span without the whitespace around it), the space
\* after the period of an abbreviation included.
C17_ExampleAndSpanKept ==
  segpc = "returned" =>
    /\ paragraphText = Example => Texts = ExampleTexts
    /\ \A k \in 1..Len(sentences) : sentences[k].text = Trim(Span(k))

Contains(s, t) ==
  \E j \in 1..(Len(s) - Len(t) + 1) : SubSeq(s, j, j + Len(t) - 1) = t

\* abbreviation a, in any letter case, stands as a word at character p of
\* the normalized text and is followed by one period, whitespace and text
C18_Case(a, p) ==
  LET n == Len(a) IN
  /\ p + n + 2 <= Len(normalized)
  /\ \A k \in 1..n : normalized[p + k - 1] \in {a[k], OtherCase(a[k])}
  /\ p = 1 \/ ~IsWordChar(normalized[p - 1])
  /\ normalized[p + n] = "."
  /\ normalized[p + n + 1] \in WhiteSpace
  /\ normalized[p + n + 2] \notin SentencePunct

\* the abbreviation with its period and the first character after it,
\* with and without the whitespace between them
C18_Joined(a, p) ==
  LET n == Len(a) IN
  {SubSeq(normalized, p, p + n + 2),
   SubSeq(normalized, p, p + n) \o <<normalized[p + n + 2]>>}

\* C18: for every abbreviation of the fixed set, in any letter case, a
\* single period directly after it that is followed by whitespace and more
\* text never ends a sentence: the abbreviation and the text after it are
\* in the same returned sentence.
C18_AbbreviationNeverEnds ==
  segpc = "returned" =>
    \A a \in ABBREVIATIONS : \A p \in 1..Len(normalized) :
      C18_Case(a, p) =>
        \E k \in 1..Len(sentences) :
          \E t \in C18_Joined(a, p) : Contains(sentences[k].text, t)

\* an abbreviation that is not spelled as in the list was followed by a
\* period and text, and the paragraph had a sentence boundary elsewhere
C18_Witness ==
  /\ segpc = "returned"
  /\ Len(sentences) >= 2
  /\ \E a \in ABBREVIATIONS : \E p \in 1..Len(normalized) :
       /\ C18_Case(a, p)
       /\ SubSeq(normalized, p, p + Len(a) - 1) # a

NoWhiteSpace(s) == SelectSeq(s, LAMBDA c : c \notin WhiteSpace)

RECURSIVE JoinTexts(_)
JoinTexts(ts) == IF ts = <<>> THEN <<>> ELSE Head(ts) \o JoinTexts(Tail(ts))

\* C19: the texts of the returned sentences, concatenated in order, are
\* normalizeText(paragraphText) once whitespace is removed from both: no
\* other character is lost, duplicated or moved.
C19_TextsReproduceNormalized ==
  segpc = "returned" =>
    NoWhiteSpace(JoinTexts(Texts)) = NoWhiteSpace(normalizeText(paragraphText))

\* several sentences were returned from a paragraph that normalizeText
\* changed, and their texts differ from the normalized text in whitespace
C19_Witness ==
  /\ segpc = "returned"
  /\ Len(sentences) >= 2
  /\ normalizeText(paragraphText) # paragraphText
  /\ JoinTexts(Texts) # normalizeText(paragraphText)
  /\ \E k \in 1..Len(sentences) : \E c \in Closers \ WhiteSpace :
       sentences[k].text[Len(sentences[k].text)] = c

\* C20: the returned sentences satisfy 0 <= start <= end <= length of the
\* normalized text, and the end of each sentence is at most the start of
\* the next one: offsets never decrease and spans never overlap.
C20_OffsetsOrdered ==
  segpc = "returned" =>
    /\ \A k \in 1..Len(sentences) :
         /\ 0 <= sentences[k].start
         /\ sentences[k].start <= sentences[k].end
         /\ sentences[k].end <= Len(normalized)
    /\ \A k \in 1..(Len(sentences) - 1) :
         sentences[k].end <= sentences[k + 1].start

\* two or more sentences were returned, with a gap between the first two,
\* and the last one ends before the end of the normalized text
C20_Witness ==
  /\ segpc = "returned"
  /\ Len(sentences) >= 2
  /\ sentences[1].end < sentences[2].start
  /\ sentences[Len(sentences)].end < Len(normalized)

\* a returned sentence holds an abbreviation whose boundary was suppressed
C21_Suppressed ==
  \E a \in ABBREVIATIONS : \E p \in 1..Len(normalized) : C18_Case(a, p)

\* C21: the k-th returned sentence has the sid numbered k, so the sids of a
\* paragraph are 1..n without gap or repeat, also when abbreviations
\* suppress boundaries and when the last sentence has no terminator; and
\* no returned sentence has an empty or whitespace-only text.
C21_SidsConsecutiveNoEmpty ==
  segpc = "returned" =>
    \A k \in 1..Len(sentences) :
      /\ sentences[k].sid = k
      /\ Trim(sentences[k].text) # <<>>

\* two sentences were returned, one with a suppressed boundary, the last
\* one without a terminator
C21_Witness ==
  /\ segpc = "returned"
  /\ Len(sentences) >= 2
  /\ C21_Suppressed
  /\ normalized[Len(normalized)] \notin SentencePunct \cup Closers

\* ---- preprocess-book: the structure
\* the entry prepared for sentence k (from 1) of a paragraph has the
\* context the claim describes for index k - 1
C22_ContextOf(paragraph, k, e) ==
  LET n == Len(paragraph.sentences) IN
  /\ e.sentence = paragraph.sentences[k].text
  /\ e.context.paragraph = paragraph.text
  /\ e.context.prev_sentence =
       IF k = 1 THEN Null ELSE paragraph.sentences[k - 1].text
  /\ e.context.next_sentence =
       IF k = n THEN Null ELSE paragraph.sentences[k + 1].text

\* C22: for every non-empty sentence sequence and every index in range,
\* createContextWindow returns prev_sentence = null at index 0 and else the
\* text of the sentence before, next_sentence = null at the last index and
\* else the text of the sentence after, and paragraph = the paragraph text
\* passed in; both neighbours are null for a paragraph of one sentence.
C22_ContextWindow ==
  bookpc \in {"prepared", "applied"} =>
    \A c \in 1..Len(processedBook) :
      \A p \in 1..Len(processedBook[c].paragraphs) :
        LET paragraph == processedBook[c].paragraphs[p] IN
        \A k \in 1..Len(paragraph.sentences) :
          \E j \in 1..Len(prepared) :
            /\ prepared[j].sid = paragraph.sentences[k].sid
            /\ C22_ContextOf(paragraph, k, prepared[j])

\* contexts were built for a paragraph of one sentence and for a paragraph
\* of three sentences
C22_Witness ==
  /\ bookpc = "prepared"
  /\ \E j \in 1..Len(prepared) :
       /\ prepared[j].context.prev_sentence = Null
       /\ prepared[j].context.next_sentence = Null
  /\ \E j \in 1..Len(prepared) :
       /\ prepared[j].context.prev_sentence # Null
       /\ prepared[j].context.next_sentence # Null

\* the modern paragraph mirrors the original one; a failed translation is
\* carried as the sentinel
C23_Mirrors(paragraph, modern) ==
  /\ modern.pid = <<"m_">> \o paragraph.pid
  /\ Len(modern.sentences) = Len(paragraph.sentences)
  /\ \A k \in 1..Len(paragraph.sentences) :
       LET sid == paragraph.sentences[k].sid IN
       /\ modern.sentences[k].sid = <<"m_">> \o sid
       /\ (sid \in DOMAIN given /\ given[sid] = FailedText)
            => modern.sentences[k].text = FailedText

\* C23: after applyTranslations every chapter has as many modern paragraphs
\* as paragraphs, every modern paragraph as many sentences as its original,
\* with the original ids prefixed by "m_"; alignment.original_to_modern maps
\* every original sid of the chapter, and nothing else, to "m_" + sid; a
\* sentence whose translation failed carries the failure sentinel.
C23_ModernMirrorsOriginal ==
  bookpc = "applied" =>
    /\ Len(finalBook) = Len(processedBook)
    /\ \A c \in 1..Len(finalBook) :
         LET chapter == finalBook[c] IN
         /\ chapter.paragraphs = processedBook[c].paragraphs
         /\ Len(chapter.modern_paragraphs) = Len(chapter.paragraphs)
         /\ \A p \in 1..Len(chapter.paragraphs) :
              C23_Mirrors(chapter.paragraphs[p], chapter.modern_paragraphs[p])
         /\ DOMAIN chapter.alignment.original_to_modern =
              UNION {{chapter.paragraphs[p].sentences[k].sid :
                        k \in 1..Len(chapter.paragraphs[p].sentences)} :
                      p \in 1..Len(chapter.paragraphs)}
         /\ \A sid \in DOMAIN chapter.alignment.original_to_modern :
              chapter.alignment.original_to_modern[sid] = <<"m_">> \o sid

\* translations were applied to a book of two chapters, one with two
\* paragraphs, in which the translation of one sentence had failed
C23_Witness ==
  /\ bookpc = "applied"
  /\ Len(finalBook) = 2
  /\ \E c \in 1..Len(finalBook) : Len(finalBook[c].paragraphs) >= 2
  /\ \E sid \in DOMAIN given : given[sid] = FailedText
  /\ \E sid \in DOMAIN given : given[sid] # FailedText

\* ---- preprocess-book: the flags
C24_NoTranslation ==
  config.estimate \/ ~config.translate \/ config.dryRun

C24_State ==
  (script = "preprocess-book" /\ phase # "idle" /\ C24_NoTranslation) =>
    /\ pc = "none"
    /\ calls = <<>>
    /\ phase = "done"
    /\ config.estimate => ~document.written

C24_Step ==
  (script = "preprocess-book" /\ phase = "idle" /\ phase' # "idle"
     /\ (config'.estimate \/ ~config'.translate \/ config'.dryRun)) =>
    /\ pc' = "none"
    /\ calls' = <<>>
    /\ phase' = "done"

\* C24: in preprocess-book, with --estimate translateBatch is never invoked
\* and no service call is issued, whatever other flags are given (--translate
\* included); nor is one issued when --translate is absent or --dry-run is
\* given. With --estimate the run ends without writing the output.
C24_NoCallsWithoutTranslation == []C24_State /\ [][C24_Step]_vars

\* a run with --estimate and --translate, without --dry-run, with an API
\* key and a book that has units, has ended
C24_Witness ==
  /\ script = "preprocess-book"
  /\ phase = "done"
  /\ config.estimate /\ config.translate /\ ~config.dryRun
  /\ hasKey
  /\ units > 0

\* ---- translateBatch, one sentence at a time: order and progress
\* the call in flight is that of unit i: every unit before it is settled
\* and no call has been issued for a unit after it
C25_InOrder ==
  (pc = "running" /\ step = "calling") =>
    /\ \A j \in 1..i : sentencesWithContext[j] \in DOMAIN translations
    /\ \A j \in (i + 2)..total : sent[sentencesWithContext[j]] = 0

\* C25: the one-sentence-at-a-time translateBatch processes the units in
\* input order with at most one service call in flight, and when it has
\* returned the progress callback has been invoked for every unit, a unit
\* that got the failure sentinel included, so that the last reported
\* `current` equals `total`.
C25_OrderedAndProgressComplete ==
  /\ C25_InOrder
  /\ pc = "returned" =>
       /\ \A sid \in Sids : reported[sid] >= 1
       /\ total > 0 => /\ currents # <<>>
                       /\ currents[Len(currents)] = total

\* ---- estimateCost
\* x / y rounded to the nearest integer, a half rounded up
C26_Rounded(x, y) == (2 * x + y) \div (2 * y)

C26_Ceil(x, y) == IF x % y = 0 THEN x \div y ELSE x \div y + 1

\* C26: estimateCost(n, L) returns estimatedInputTokens = n * ceil(L / 4)
\* and estimatedOutputTokens = n * 100 for all non-negative integers n and L
\* (10,000 and 10,000 for n = 100, L = 400), and estimatedTotalCost is
\* (input * 0.10 + output * 0.30) / 1,000,000 rounded to 4 decimal places.
C26_EstimateAsStated ==
  costpc = "returned" =>
    LET input == sentenceCount * C26_Ceil(avgContextLength, 4)
        output == sentenceCount * 100
    IN /\ costEstimate.estimatedInputTokens = input
       /\ costEstimate.estimatedOutputTokens = output
       /\ <<sentenceCount, avgContextLength>> = <<100, 400>> =>
            /\ costEstimate.estimatedInputTokens = 10000
            /\ costEstimate.estimatedOutputTokens = 10000
       /\ costEstimate.estimatedTotalCost =
            C26_Rounded(input * 1 + output * 3, 1000)

\* ---- segmentParagraph: text and offsets
\* C27: the text of every returned sentence is exactly the substring of
\* the normalized paragraph text from start (inclusive) to end (exclusive),
\* also for a sentence that follows a terminator-plus-quote delimiter and
\* for one that contains a suppressed abbreviation boundary.
C27_TextIsSubstring ==
  segpc = "returned" =>
    \A k \in 1..Len(sentences) :
      sentences[k].text =
        SubSeq(normalized, sentences[k].start + 1, sentences[k].end)

\* ---- generate-retellings: sentinels and the cache
\* C28: no failure sentinel is ever stored in the cache file: a unit whose
\* group failed in one run has no cache entry after that run, and the next
\* run without --skip-cache sends it to the service again.
C28_NoSentinelCached ==
  /\ cacheFile.state = "ok" =>
       \A sid \in DOMAIN cacheFile.data : cacheFile.data[sid].t # "failed"
  /\ (script = "generate-retellings" /\ run = 2 /\ ~skipCache
        /\ phase \in {"translating", "writing", "done"}
        /\ firstDocument.written) =>
       \A sid \in DOMAIN firstDocument.modern :
         firstDocument.modern[sid].t = "failed" =>
           /\ sid \notin DOMAIN StartData
           /\ sid \in C16_Requested

\* ---- translateBatch: a resolved group keeps its values
\* the then handler stores what translateBatchGroup returned for the group,
\* and no later step changes the entries of a group whose call succeeded
C29_Step ==
  \A g \in Groups :
    /\ (st[g] = "resolved" /\ st'[g] # "resolved") =>
         \A sid \in GroupSids(g) : translations'[sid] = batchResults[g][sid]
    /\ st[g] \in {"fulfilled", "thenThrew"} =>
         /\ \A sid \in GroupSids(g) : translations'[sid] = translations[sid]
         /\ processedCount' = processedCount
              \/ \E h \in Groups \ {g} : st'[h] # st[h]

\* C29: when translateBatchGroup resolves for a group, the final map holds
\* for every sid of the group exactly the value it returned: the group is
\* never overwritten with "[Translation failed: ...]" sentinels and never
\* counted twice, whatever the types of the values in the parsed response.
C29_ResolvedGroupKept ==
  /\ [][C29_Step]_vars
  /\ [](processedCount <= total /\ \A sid \in Sids : reported[sid] <= 1)

\* ---- applyTranslations: the offsets of the modern sentences
\* modern.text.substring(sentence.start, sentence.end)
C30_Substring(modern, k) ==
  SubSeq(modern.text, modern.sentences[k].start + 1, modern.sentences[k].end)

C30_SpansAsStated(modern) ==
  \A k \in 1..Len(modern.sentences) :
    /\ C30_Substring(modern, k) = modern.sentences[k].text
    /\ k > 1 => modern.sentences[k].start > modern.sentences[k - 1].end

\* C30: every modern sentence produced by applyTranslations has as text
\* exactly the characters of its modern paragraph's text from start
\* (inclusive) to end (exclusive), in paragraphs of one or more sentences,
\* and the spans leave out the spaces that separate the sentences.
C30_ModernTextIsSubstring ==
  bookpc = "applied" =>
    \A c \in 1..Len(finalBook) :
      \A p \in 1..Len(finalBook[c].modern_paragraphs) :
        C30_SpansAsStated(finalBook[c].modern_paragraphs[p])

====
